---- MODULE Spec2Model ----
(***************************************************************************)
(* Eukairo: the on-device protocol recommender.  The model covers the      *)
(* persisted state blob (storage), the selection orchestrator              *)
(* (selectProtocol), the feedback update (saveRating -> addSession +       *)
(* updateModel) and the drift detector.  Numbers the code keeps as floats  *)
(* are exact rationals [n, d] here; a comparison against a threshold is    *)
(* the comparison of the exact values.                                     *)
(***************************************************************************)
EXTENDS Integers, Sequences, FiniteSets, TLC

VARIABLES stored, defaultData, now, ticks, session, log, call, ret

vars == <<stored, defaultData, now, ticks, session, log, call, ret>>

-----------------------------------------------------------------------------
(* Bounds of the model *)

MaxSessions == 3
MaxTicks == 1
StartClock == 172800000

-----------------------------------------------------------------------------
(* Exact rational arithmetic standing in for the float arithmetic *)

Abs(x) == IF x < 0 THEN -x ELSE x

RECURSIVE GCD(_, _)
GCD(a, b) == IF b = 0 THEN a ELSE GCD(b, a % b)

Q(n, d) ==
  LET s == IF d < 0 THEN -1 ELSE 1
      g == GCD(Abs(n), Abs(d))
  IN  [n |-> (s * n) \div g, d |-> (s * d) \div g]

QI(i) == [n |-> i, d |-> 1]
QAdd(a, b) == Q(a.n * b.d + b.n * a.d, a.d * b.d)
QSub(a, b) == Q(a.n * b.d - b.n * a.d, a.d * b.d)
QMul(a, b) == Q(a.n * b.n, a.d * b.d)
QDiv(a, b) == Q(a.n * b.d, a.d * b.n)
QLt(a, b) == a.n * b.d < b.n * a.d
QLe(a, b) == a.n * b.d <= b.n * a.d
QFloor(a) == a.n \div a.d
QIsZero(a) == a.n = 0

\* JavaScript's  x || dflt  on a number: 0 is falsy
OrElse(x, dflt) == IF QIsZero(x) THEN dflt ELSE x

\* an optional field: <<>> when the key is absent (undefined), <<v>> otherwise
None == <<>>
Some(v) == <<v>>
IsSome(o) == o # <<>>

-----------------------------------------------------------------------------
(* Catalog *)

Goals == {"calm", "focus", "pre-sleep"}

protocols ==
  << [id |-> "physiological-sigh", supports |-> {"calm", "pre-sleep"}, baseSeconds |-> 90],
     [id |-> "box-breathing", supports |-> {"calm", "focus", "pre-sleep"}, baseSeconds |-> 120],
     [id |-> "eye-break", supports |-> {"focus", "calm"}, baseSeconds |-> 60],
     [id |-> "4-7-8-breathing", supports |-> {"pre-sleep", "calm"}, baseSeconds |-> 120],
     [id |-> "alternate-nostril", supports |-> {"calm", "focus"}, baseSeconds |-> 90] >>

ProtocolIds == {protocols[i].id : i \in 1..Len(protocols)}

getProtocolsByGoal(goal) ==
  LET Keep(p) == goal \in p.supports
  IN  SelectSeq(protocols, Keep)

getProtocolById(id) == CHOOSE p \in {protocols[i] : i \in 1..Len(protocols)} : p.id = id

Deltas == {-1, 0, 1}

-----------------------------------------------------------------------------
(* Configuration constants *)

MIN_TRIALS_FOR_THOMPSON == 2
MIN_HOURLY_EXPLORATION == 2
CLOSE_TRIALS == 20
CLOSE_COMPETITION_THRESHOLD == Q(5, 100)
HARMFUL_EMA == Q(-3, 10)
MIN_DURATION == 45
MAX_DURATION == 180
MED_STEP == 15
MIN_HOURLY_TRIALS == 1
DRIFT_WINDOW_SIZE == 5
DRIFT_VARIANCE_THRESHOLD == Q(30, 100)
DRIFT_COOLDOWN_MS == 3600000
HOUR_MS == 3600000
HOURS_PER_DAY == 24

\* new Date().getHours(), the device being on UTC
getHours(t) == (t \div HOUR_MS) % HOURS_PER_DAY

-----------------------------------------------------------------------------
(* thompson-sampling.ts *)

deltaToReward(delta) ==
  IF delta = 1 THEN QI(1) ELSE IF delta = 0 THEN Q(1, 2) ELSE QI(0)

\* mutant: a neutral rating, as in the simulator, updates nothing
updateBetaParamsMut(currentAlpha, currentBeta, reward) ==
  IF reward = Q(1, 2) THEN [alpha |-> currentAlpha, beta |-> currentBeta]
  ELSE [alpha |-> QAdd(currentAlpha, reward),
        beta |-> QAdd(currentBeta, QSub(QI(1), reward))]

updateBetaParams(currentAlpha, currentBeta, reward) ==
  [alpha |-> QAdd(currentAlpha, reward),
   beta |-> QAdd(currentBeta, QSub(QI(1), reward))]

betaMean(alpha, beta) == QDiv(alpha, QAdd(alpha, beta))

-----------------------------------------------------------------------------
(* drift-detection *)

RECURSIVE SumQ(_)
SumQ(s) == IF s = <<>> THEN QI(0) ELSE QAdd(Head(s), SumQ(Tail(s)))

\* mutant: only a full window has a variance
calculateRecentVarianceMut(recentScores) ==
  IF Len(recentScores) < DRIFT_WINDOW_SIZE THEN QI(0)
  ELSE LET len == QI(Len(recentScores))
           mean == QDiv(SumQ([i \in 1..Len(recentScores) |-> QI(recentScores[i])]), len)
           squaredDiffs == [i \in 1..Len(recentScores) |->
                              QMul(QSub(QI(recentScores[i]), mean),
                                   QSub(QI(recentScores[i]), mean))]
       IN  QDiv(SumQ(squaredDiffs), len)

calculateRecentVariance(recentScores) ==
  IF Len(recentScores) < 3 THEN QI(0)
  ELSE LET len == QI(Len(recentScores))
           mean == QDiv(SumQ([i \in 1..Len(recentScores) |-> QI(recentScores[i])]), len)
           squaredDiffs == [i \in 1..Len(recentScores) |->
                              QMul(QSub(QI(recentScores[i]), mean),
                                   QSub(QI(recentScores[i]), mean))]
       IN  QDiv(SumQ(squaredDiffs), len)

\* mutant: a full window keeps its first entries and drops the new score
updateScoreWindowMut(currentWindow, newScore) ==
  LET updated == Append(currentWindow, newScore)
  IN  IF Len(updated) > DRIFT_WINDOW_SIZE
      THEN SubSeq(updated, 1, DRIFT_WINDOW_SIZE)
      ELSE updated

updateScoreWindow(currentWindow, newScore) ==
  LET updated == Append(currentWindow, newScore)
  IN  IF Len(updated) > DRIFT_WINDOW_SIZE
      THEN SubSeq(updated, Len(updated) - DRIFT_WINDOW_SIZE + 1, Len(updated))
      ELSE updated

\* mutant: the cooldown comparison is inverted
CooldownActiveMut(lastResetTimestamp, t) ==
  /\ IsSome(lastResetTimestamp)
  /\ lastResetTimestamp[1] # 0
  /\ t - lastResetTimestamp[1] > DRIFT_COOLDOWN_MS

CooldownActive(lastResetTimestamp, t) ==
  /\ IsSome(lastResetTimestamp)
  /\ lastResetTimestamp[1] # 0
  /\ t - lastResetTimestamp[1] < DRIFT_COOLDOWN_MS

\* mutant: the variance test excludes the threshold itself
shouldResetDueToDriftMut(recentVariance, lastResetTimestamp, t) ==
  IF QLe(recentVariance, DRIFT_VARIANCE_THRESHOLD) THEN FALSE
  ELSE IF CooldownActive(lastResetTimestamp, t) THEN FALSE
  ELSE TRUE

shouldResetDueToDrift(recentVariance, lastResetTimestamp, t) ==
  IF QLt(recentVariance, DRIFT_VARIANCE_THRESHOLD) THEN FALSE
  ELSE IF CooldownActive(lastResetTimestamp, t) THEN FALSE
  ELSE TRUE

\* mutant: the soft reset rebuilds the posterior without the unit prior
softResetBetaParamsNoPrior(currentAlpha, currentBeta) ==
  LET totalTrials == QSub(QAdd(currentAlpha, currentBeta), QI(2))
      keepRatio == Q(25, 100)
      mean == QDiv(currentAlpha, QAdd(currentAlpha, currentBeta))
      keptTrials == QI(QFloor(QMul(totalTrials, keepRatio)))
  IN  [alpha |-> QMul(mean, keptTrials),
       beta |-> QMul(QSub(QI(1), mean), keptTrials)]

\* mutant: the soft reset keeps every prior trial
softResetBetaParamsMut(currentAlpha, currentBeta) ==
  LET totalTrials == QSub(QAdd(currentAlpha, currentBeta), QI(2))
      keepRatio == QI(1)
      mean == QDiv(currentAlpha, QAdd(currentAlpha, currentBeta))
      keptTrials == QI(QFloor(QMul(totalTrials, keepRatio)))
  IN  [alpha |-> QAdd(QI(1), QMul(mean, keptTrials)),
       beta |-> QAdd(QI(1), QMul(QSub(QI(1), mean), keptTrials))]

softResetBetaParams(currentAlpha, currentBeta) ==
  LET totalTrials == QSub(QAdd(currentAlpha, currentBeta), QI(2))
      keepRatio == Q(25, 100)
      mean == QDiv(currentAlpha, QAdd(currentAlpha, currentBeta))
      keptTrials == QI(QFloor(QMul(totalTrials, keepRatio)))
  IN  [alpha |-> QAdd(QI(1), QMul(mean, keptTrials)),
       beta |-> QAdd(QI(1), QMul(QSub(QI(1), mean), keptTrials))]

-----------------------------------------------------------------------------
(* contextual-bandits.ts: the hour-of-day sub-models.  hourlyModels is a   *)
(* function from the hours that have an entry; a missing object and {}     *)
(* are both the empty function.                                            *)

initializeHourlyModel == [trials |-> 0, alpha |-> QI(1), beta |-> QI(1), avg |-> QI(0)]

\* mutant: a sub-model is created by the first rating of its hour and only
\* counted from the second on
updateHourlyModelMut(hourlyModels, hour, reward) ==
  IF hour \in DOMAIN hourlyModels
  THEN [hourlyModels EXCEPT ![hour] =
          [trials |-> @.trials + 1,
           alpha |-> QAdd(@.alpha, reward),
           beta |-> QAdd(@.beta, QSub(QI(1), reward)),
           avg |-> QDiv(QAdd(QMul(@.avg, QI(@.trials)), reward), QI(@.trials + 1))]]
  ELSE [h \in DOMAIN hourlyModels \cup {hour} |->
          IF h = hour THEN initializeHourlyModel ELSE hourlyModels[h]]

updateHourlyModel(hourlyModels, hour, reward) ==
  LET old == IF hour \in DOMAIN hourlyModels THEN hourlyModels[hour]
             ELSE initializeHourlyModel
      trials == old.trials + 1
      upd == [trials |-> trials,
              alpha |-> QAdd(old.alpha, reward),
              beta |-> QAdd(old.beta, QSub(QI(1), reward)),
              avg |-> QDiv(QAdd(QMul(old.avg, QI(trials - 1)), reward), QI(trials))]
  IN  [h \in DOMAIN hourlyModels \cup {hour} |-> IF h = hour THEN upd ELSE hourlyModels[h]]

-----------------------------------------------------------------------------
(* storage: the blob under 'eukairo.v1' and the module-level defaultData   *)
(* object that loadData hands out (by reference) when there is no blob.    *)

EmptyData == [models |-> <<>>, history |-> <<>>, streak |-> 0]

\* JSON.stringify / JSON.parse: on the values this program stores (finite
\* numbers, arrays, plain objects) the text decodes to an equal value; keys
\* whose value is undefined are dropped, which is the None of the model.
Stringify(data) == Some(data)
Parse(raw) == raw[1]

\* a blob whose text JSON.parse rejects
Unparseable == Some([corrupt |-> TRUE])

\* loadData: aliased is TRUE when the caller got defaultData itself (no blob,
\* or JSON.parse threw)
loadData(blob, dflt) ==
  IF ~IsSome(blob) \/ blob = Unparseable THEN [data |-> dflt, aliased |-> TRUE]
  ELSE [data |-> Parse(blob), aliased |-> FALSE]

HasModel(data, id) == id \in DOMAIN data.models

NewModel ==
  [trials |-> 0, avg |-> QI(0), emaAvg |-> QI(0),
   alphaParam |-> QI(1), betaParam |-> QI(1),
   hourlyModels |-> <<>>, hourlyPerformance |-> <<>>,
   windowScores |-> <<>>, recentVariance |-> QI(0),
   lastResetTimestamp |-> None, medDuration |-> None,
   lastDelta |-> None, lastUsedISO |-> None]

Max(a, b) == IF a > b THEN a ELSE b
Min(a, b) == IF a < b THEN a ELSE b

LastN(s, k) == IF Len(s) <= k THEN s ELSE SubSeq(s, Len(s) - k + 1, Len(s))

\* the adaptive MED step of updateModel, from the stored history
medStep(history, protocolId) ==
  LET IsOf(r) == r.protocolId = protocolId
      recentSessions == LastN(SelectSeq(history, IsOf), 3)
      lastTwo == LastN(recentSessions, 2)
      consecutiveBetter == /\ Len(recentSessions) >= 2
                           /\ \A i \in 1..Len(lastTwo) : lastTwo[i].delta = 1
      hadWorse == \E i \in 1..Len(recentSessions) : recentSessions[i].delta = -1
  IN  IF hadWorse THEN 20 ELSE IF consecutiveBetter THEN 10 ELSE 15

\* the drift branch of updateModel: the soft reset of the posterior
softReset(model, t) ==
  LET resetParams == softResetBetaParams(model.alphaParam, model.betaParam)
  IN  [model EXCEPT !.alphaParam = resetParams.alpha,
                    !.betaParam = resetParams.beta,
                    !.emaAvg = QI(0),
                    !.avg = QI(0),
                    !.lastResetTimestamp = Some(t),
                    !.windowScores = <<>>]

\* mutant: the trial counter is not incremented
applyRatingMut(model, delta, t) ==
  LET reward == deltaToReward(delta)
      avg == IF model.trials = 0 THEN QI(delta)
             ELSE QDiv(QAdd(QMul(model.avg, QI(model.trials)), QI(delta)),
                       QI(model.trials + 1))
      emaAvg == IF model.trials = 0 THEN QI(delta)
                ELSE QAdd(QMul(OrElse(model.emaAvg, avg), Q(8, 10)),
                          QMul(QI(delta), Q(2, 10)))
      betaUpdate == updateBetaParams(OrElse(model.alphaParam, QI(1)),
                                     OrElse(model.betaParam, QI(1)), reward)
      windowScores == updateScoreWindow(model.windowScores, delta)
  IN  [model EXCEPT !.avg = avg,
                    !.emaAvg = emaAvg,
                    !.lastUsedISO = Some(t),
                    !.lastDelta = Some(delta),
                    !.alphaParam = betaUpdate.alpha,
                    !.betaParam = betaUpdate.beta,
                    !.hourlyModels = updateHourlyModel(model.hourlyModels, getHours(t), reward),
                    !.windowScores = windowScores,
                    !.recentVariance = calculateRecentVariance(windowScores)]

\* the model object of updateModel just before its drift test
applyRating(model, delta, t) ==
  LET reward == deltaToReward(delta)
      avg == IF model.trials = 0 THEN QI(delta)
             ELSE QDiv(QAdd(QMul(model.avg, QI(model.trials)), QI(delta)),
                       QI(model.trials + 1))
      emaAvg == IF model.trials = 0 THEN QI(delta)
                ELSE QAdd(QMul(OrElse(model.emaAvg, avg), Q(8, 10)),
                          QMul(QI(delta), Q(2, 10)))
      betaUpdate == updateBetaParams(OrElse(model.alphaParam, QI(1)),
                                     OrElse(model.betaParam, QI(1)), reward)
      windowScores == updateScoreWindow(model.windowScores, delta)
  IN  [model EXCEPT !.avg = avg,
                    !.emaAvg = emaAvg,
                    !.trials = model.trials + 1,
                    !.lastUsedISO = Some(t),
                    !.lastDelta = Some(delta),
                    !.alphaParam = betaUpdate.alpha,
                    !.betaParam = betaUpdate.beta,
                    !.hourlyModels = updateHourlyModel(model.hourlyModels, getHours(t), reward),
                    !.windowScores = windowScores,
                    !.recentVariance = calculateRecentVariance(windowScores)]

ratedModel(data, protocolId, delta, t) ==
  applyRating(IF HasModel(data, protocolId) THEN data.models[protocolId] ELSE NewModel,
              delta, t)

\* the drift test of updateModel on the rated model
driftBranch(rated, t) ==
  IF shouldResetDueToDrift(rated.recentVariance, rated.lastResetTimestamp, t)
  THEN softReset(rated, t) ELSE rated

\* mutant: the dose is moved by the step without the bounds 45 and 180
storeModelMut(data, protocolId, delta, currentDuration, hour, drifted) ==
  LET perf == IF hour \in DOMAIN drifted.hourlyPerformance
              THEN drifted.hourlyPerformance[hour] ELSE [sum |-> 0, count |-> 0]
      hourlyPerformance ==
        [h \in DOMAIN drifted.hourlyPerformance \cup {hour} |->
           IF h = hour THEN [sum |-> perf.sum + delta, count |-> perf.count + 1]
           ELSE drifted.hourlyPerformance[h]]
      step == medStep(data.history, protocolId)
      medDuration == IF delta = 1 THEN currentDuration - step
                     ELSE IF delta = -1 THEN currentDuration + step
                     ELSE currentDuration
      model == [drifted EXCEPT !.hourlyPerformance = hourlyPerformance,
                               !.medDuration = Some(medDuration)]
  IN  [data EXCEPT !.models =
         [id \in DOMAIN data.models \cup {protocolId} |->
            IF id = protocolId THEN model ELSE data.models[id]]]

\* the rest of updateModel: hourlyPerformance, the MED step, the write-back
storeModel(data, protocolId, delta, currentDuration, hour, drifted) ==
  LET perf == IF hour \in DOMAIN drifted.hourlyPerformance
              THEN drifted.hourlyPerformance[hour] ELSE [sum |-> 0, count |-> 0]
      hourlyPerformance ==
        [h \in DOMAIN drifted.hourlyPerformance \cup {hour} |->
           IF h = hour THEN [sum |-> perf.sum + delta, count |-> perf.count + 1]
           ELSE drifted.hourlyPerformance[h]]
      step == medStep(data.history, protocolId)
      medDuration == IF delta = 1 THEN Max(MIN_DURATION, currentDuration - step)
                     ELSE IF delta = -1 THEN Min(MAX_DURATION, currentDuration + step)
                     ELSE currentDuration
      model == [drifted EXCEPT !.hourlyPerformance = hourlyPerformance,
                               !.medDuration = Some(medDuration)]
  IN  [data EXCEPT !.models =
         [id \in DOMAIN data.models \cup {protocolId} |->
            IF id = protocolId THEN model ELSE data.models[id]]]

\* updateModel(protocolId, delta, currentDuration) on the loaded data
updateModel(data, protocolId, delta, currentDuration, t) ==
  storeModel(data, protocolId, delta, currentDuration, getHours(t),
             driftBranch(ratedModel(data, protocolId, delta, t), t))

\* adjustDuration(_protocolId, baseDuration, lastDelta): the fixed-step dose
\* adjustment exported next to selectProtocol
adjustDuration(protocolId, baseDuration, lastDelta) ==
  IF lastDelta = 1 THEN Max(MIN_DURATION, baseDuration - MED_STEP)
  ELSE IF lastDelta = -1 THEN Min(MAX_DURATION, baseDuration + MED_STEP)
  ELSE baseDuration

\* addSession(record) on the loaded data
addSession(data, record) == [data EXCEPT !.history = Append(data.history, record)]

-----------------------------------------------------------------------------
(* advanced-insights: the analytics queries.  Each takes the AppData       *)
(* object of its caller; the model returns the result next to that object  *)
(* as it is after the call.  The fields of a result that go through sqrt   *)
(* (confidence, credibleInterval, recommendation, averageConfidence,       *)
(* convergenceStatus) are left out of the result.                          *)

getBestHourForProtocol(model) ==
  LET eligible == {h \in DOMAIN model.hourlyModels :
                     /\ model.hourlyModels[h].trials >= MIN_HOURLY_TRIALS
                     /\ QLt(QI(0), betaMean(model.hourlyModels[h].alpha,
                                            model.hourlyModels[h].beta))}
      meanAt(h) == betaMean(model.hourlyModels[h].alpha, model.hourlyModels[h].beta)
  IN  IF eligible = {} THEN None
      ELSE Some(CHOOSE h \in eligible :
                  \A g \in eligible :
                    /\ QLe(meanAt(g), meanAt(h))
                    /\ (g < h => QLt(meanAt(g), meanAt(h))))

determineTrend(model) ==
  IF QIsZero(model.emaAvg) \/ QIsZero(model.avg) THEN "stable"
  ELSE IF QLt(Q(2, 10), QSub(model.emaAvg, model.avg)) THEN "improving"
  ELSE IF QLt(QSub(model.emaAvg, model.avg), Q(-2, 10)) THEN "declining"
  ELSE "stable"

\* one entry of getProtocolInsights
insightOf(protocolId, model) ==
  [protocolId |-> protocolId,
   trials |-> model.trials,
   performance |-> betaMean(OrElse(model.alphaParam, QI(1)), OrElse(model.betaParam, QI(1))),
   bestHour |-> getBestHourForProtocol(model),
   trend |-> determineTrend(model)]

\* the entries are returned as a set: their order (by performance) is not modelled
getProtocolInsights(data) ==
  [data |-> data,
   result |-> {insightOf(id, data.models[id]) :
                 id \in {m \in DOMAIN data.models : data.models[m].trials # 0}}]

\* mutant: the recent sessions are taken with splice(-20), which removes them
\* from data.history
getAlgorithmMetricsMut(data) ==
  LET recentSessions == LastN(data.history, 20)
      uniqueProtocols == Cardinality(DOMAIN data.models)
      uniqueRecent == Cardinality({recentSessions[i].protocolId : i \in 1..Len(recentSessions)})
  IN  [data |-> [data EXCEPT !.history =
                   SubSeq(data.history, 1, Len(data.history) - Len(recentSessions))],
       result |-> [totalSessions |-> Len(data.history),
                   uniqueProtocols |-> uniqueProtocols,
                   explorationRate |->
                     IF Len(recentSessions) > 0 /\ uniqueProtocols > 0
                     THEN Q(uniqueRecent, Min(Len(recentSessions), uniqueProtocols))
                     ELSE QI(0),
                   driftDetections |->
                     Cardinality({id \in DOMAIN data.models :
                                    /\ IsSome(data.models[id].lastResetTimestamp)
                                    /\ data.models[id].lastResetTimestamp[1] # 0})]]

getAlgorithmMetrics(data) ==
  LET recentSessions == LastN(data.history, 20)
      uniqueProtocols == Cardinality(DOMAIN data.models)
      uniqueRecent == Cardinality({recentSessions[i].protocolId : i \in 1..Len(recentSessions)})
  IN  [data |-> data,
       result |-> [totalSessions |-> Len(data.history),
                   uniqueProtocols |-> uniqueProtocols,
                   explorationRate |->
                     IF Len(recentSessions) > 0 /\ uniqueProtocols > 0
                     THEN Q(uniqueRecent, Min(Len(recentSessions), uniqueProtocols))
                     ELSE QI(0),
                   driftDetections |->
                     Cardinality({id \in DOMAIN data.models :
                                    /\ IsSome(data.models[id].lastResetTimestamp)
                                    /\ data.models[id].lastResetTimestamp[1] # 0})]]

\* the n best of the insights with at least 3 trials; the ranking is by
\* performance * confidence, so any n of them can be the result
getTopRecommendations(data, n) ==
  LET qualified == {i \in getProtocolInsights(data).result : i.trials >= 3}
  IN  {[data |-> getProtocolInsights(data).data, result |-> top] :
         top \in {t \in SUBSET qualified :
                    Cardinality(t) = Min(n, Cardinality(qualified))}}

-----------------------------------------------------------------------------
(* ensemble-methods: four votes, each a protocol and a confidence.  The    *)
(* samples and the irrational scores (sqrt, ln, exp) are not computed: a   *)
(* vote may name any protocol its strategy can name, with a confidence     *)
(* from ConfLevels.                                                        *)

ConfLevels == {Q(3, 4)}

SeqToSet(s) == {s[i] : i \in 1..Len(s)}

thompsonVote(protos) ==
  {[algorithm |-> "thompson", protocolId |-> p.id, confidence |-> c] :
     p \in SeqToSet(protos), c \in ConfLevels}

ucbVote(protos, totalTrials) ==
  {[algorithm |-> "ucb", protocolId |-> p.id, confidence |-> c] :
     p \in SeqToSet(protos), c \in ConfLevels}

\* index of the first entry with the highest posterior mean (stable sort, descending)
RECURSIVE FirstBest(_, _, _)
FirstBest(protos, i, best) ==
  IF i > Len(protos) THEN best
  ELSE IF QLt(betaMean(protos[best].alpha, protos[best].beta),
              betaMean(protos[i].alpha, protos[i].beta))
       THEN FirstBest(protos, i + 1, i)
       ELSE FirstBest(protos, i + 1, best)

epsilonGreedyVote(protos, totalTrials) ==
  {[algorithm |-> "epsilonGreedy", protocolId |-> p.id, confidence |-> Q(3, 10)] :
     p \in SeqToSet(protos)}
  \cup
  {[algorithm |-> "epsilonGreedy", protocolId |-> protos[FirstBest(protos, 1, 1)].id,
    confidence |-> c] : c \in ConfLevels}

softmaxVote(protos, totalTrials) ==
  {[algorithm |-> "softmax", protocolId |-> p.id, confidence |-> c] :
     p \in SeqToSet(protos), c \in ConfLevels}

EnsembleWeights ==
  [thompson |-> Q(35, 100), ucb |-> Q(25, 100), epsilonGreedy |-> Q(25, 100),
   softmax |-> Q(15, 100)]

\* the weights ensembleVoting uses when the caller passes none
DefaultEnsembleWeights ==
  [thompson |-> Q(40, 100), ucb |-> Q(30, 100), epsilonGreedy |-> Q(15, 100),
   softmax |-> Q(15, 100)]

\* mutant: the votes are weighted by algorithm only, the confidence is ignored
voteCountsOfMut(votes, weights) ==
  [i \in 1..Len(votes) |->
     SumQ([j \in 1..Len(votes) |->
             IF votes[j].protocolId = votes[i].protocolId
             THEN weights[votes[j].algorithm]
             ELSE QI(0)])]

\* voteCounts, indexed by vote: the sum of weight * confidence over the votes
\* cast for the protocol of vote i
voteCountsOf(votes, weights) ==
  [i \in 1..Len(votes) |->
     SumQ([j \in 1..Len(votes) |->
             IF votes[j].protocolId = votes[i].protocolId
             THEN QMul(weights[votes[j].algorithm], votes[j].confidence)
             ELSE QI(0)])]

\* the winner of the weighted vote: Object.entries keeps the order of first
\* insertion and the sort is stable, so a tie goes to the protocol that was
\* voted for first
winnerOf(votes, voteCounts) ==
  CHOOSE i \in 1..Len(votes) :
    /\ \A k \in 1..(i - 1) : votes[k].protocolId # votes[i].protocolId
    /\ \A j \in 1..Len(votes) : ~QLt(voteCounts[i], voteCounts[j])
    /\ \A j \in 1..(i - 1) : QLt(voteCounts[j], voteCounts[i])

ensembleResult(votes, selectedProtocolId) ==
  [selectedProtocolId |-> selectedProtocolId,
   votes |-> votes,
   consensusScore |->
     Q(Cardinality({i \in 1..Len(votes) : votes[i].protocolId = selectedProtocolId}),
       Len(votes))]

combineVotes(votes, weights) ==
  ensembleResult(votes, votes[winnerOf(votes, voteCountsOf(votes, weights))].protocolId)

\* every result ensembleVoting can return for these protocols
ensembleVoting(protos, totalTrials, weights) ==
  {combineVotes(<<t, u, e, s>>, weights) :
     t \in thompsonVote(protos), u \in ucbVote(protos, totalTrials),
     e \in epsilonGreedyVote(protos, totalTrials), s \in softmaxVote(protos, totalTrials)}

-----------------------------------------------------------------------------
(* confidence-based-exploration: the recommendation is a function of the   *)
(* posteriors through exp and sqrt; any of its possible values is allowed. *)

getExplorationRecommendation(protos) ==
  {[shouldExplore |-> FALSE, protocolId |-> None]}
  \cup {[shouldExplore |-> TRUE, protocolId |-> Some(p.id)] : p \in SeqToSet(protos)}

-----------------------------------------------------------------------------
(* bandit: selectProtocol *)

\* mutant: a candidate without a stored model is not counted as untried
isUntriedMut(data, p) == HasModel(data, p.id) /\ data.models[p.id].trials = 0

isUntried(data, p) == ~HasModel(data, p.id) \/ data.models[p.id].trials = 0

isHarmful(model) == QLt(model.emaAvg, HARMFUL_EMA)

\* mutant: the harmful candidates are not skipped
isUndertriedMut(data, p) ==
  /\ HasModel(data, p.id)
  /\ data.models[p.id].trials < MIN_TRIALS_FOR_THOMPSON

isUndertried(data, p) ==
  /\ HasModel(data, p.id)
  /\ ~isHarmful(data.models[p.id])
  /\ data.models[p.id].trials < MIN_TRIALS_FOR_THOMPSON

isHourlyUndertried(data, p, currentHour) ==
  /\ HasModel(data, p.id)
  /\ data.models[p.id].trials # 0
  /\ ~isHarmful(data.models[p.id])
  /\ \/ currentHour \notin DOMAIN data.models[p.id].hourlyModels
     \/ data.models[p.id].hourlyModels[currentHour].trials < MIN_HOURLY_EXPLORATION

\* mutant: the full reset installs the prior of updateModel, Beta(1, 1)
resetModelMut(t) ==
  [trials |-> 0, avg |-> QI(0), emaAvg |-> QI(0),
   alphaParam |-> QI(1), betaParam |-> QI(1),
   hourlyModels |-> <<>>, hourlyPerformance |-> <<>>,
   windowScores |-> <<>>, recentVariance |-> QI(0),
   lastResetTimestamp |-> Some(t), medDuration |-> None,
   lastDelta |-> None, lastUsedISO |-> None]

\* the record the drift sweep stores for a drifted item
resetModel(t) ==
  [trials |-> 0, avg |-> QI(0), emaAvg |-> QI(0),
   alphaParam |-> Q(3, 2), betaParam |-> QI(1),
   hourlyModels |-> <<>>, hourlyPerformance |-> <<>>,
   windowScores |-> <<>>, recentVariance |-> QI(0),
   lastResetTimestamp |-> Some(t), medDuration |-> None,
   lastDelta |-> None, lastUsedISO |-> None]

\* the test of the drift sweep on one stored model
sweepResets(model, t) ==
  /\ IsSome(model.lastResetTimestamp)
  /\ shouldResetDueToDrift(model.recentVariance, model.lastResetTimestamp, t)

driftSweep(data, candidates, t) ==
  [data EXCEPT !.models =
     [id \in DOMAIN data.models |->
        IF /\ \E i \in 1..Len(candidates) : candidates[i].id = id
           /\ sweepResets(data.models[id], t)
        THEN resetModel(t) ELSE data.models[id]]]

\* stable sort by posterior mean, descending
RECURSIVE insertByMean(_, _)
insertByMean(x, sorted) ==
  IF sorted = <<>> THEN <<x>>
  ELSE IF QLt(x.mean, Head(sorted).mean) THEN <<Head(sorted)>> \o insertByMean(x, Tail(sorted))
       ELSE <<x>> \o sorted

RECURSIVE sortByMean(_)
sortByMean(s) == IF s = <<>> THEN <<>> ELSE insertByMean(Head(s), sortByMean(Tail(s)))

allProtocolStats(data, candidates) ==
  LET tried(p) == HasModel(data, p.id) /\ data.models[p.id].trials # 0
      withData == SelectSeq(candidates, tried)
      stat(p) == [protocol |-> p.id,
                  mean |-> betaMean(OrElse(data.models[p.id].alphaParam, Q(3, 2)),
                                    OrElse(data.models[p.id].betaParam, QI(1))),
                  trials |-> data.models[p.id].trials]
  IN  sortByMean([i \in 1..Len(withData) |-> stat(withData[i])])

\* mutant: only the leader's trial count is tested
isCloseCompetitionMut(stats) ==
  /\ Len(stats) >= 2
  /\ stats[1].trials >= CLOSE_TRIALS
  /\ QLt(QSub(stats[1].mean, stats[2].mean), CLOSE_COMPETITION_THRESHOLD)

isCloseCompetition(stats) ==
  /\ Len(stats) >= 2
  /\ stats[1].trials >= CLOSE_TRIALS
  /\ stats[2].trials >= CLOSE_TRIALS
  /\ QLt(QSub(stats[1].mean, stats[2].mean), CLOSE_COMPETITION_THRESHOLD)

\* bestModel?.medDuration || protocol.baseSeconds
learnedDuration(data, p) ==
  IF /\ HasModel(data, p.id)
     /\ IsSome(data.models[p.id].medDuration)
     /\ data.models[p.id].medDuration[1] # 0
  THEN data.models[p.id].medDuration[1]
  ELSE p.baseSeconds

protocolsForEnsemble(data, candidates) ==
  [i \in 1..Len(candidates) |->
     IF HasModel(data, candidates[i].id)
     THEN [id |-> candidates[i].id,
           alpha |-> OrElse(data.models[candidates[i].id].alphaParam, Q(3, 2)),
           beta |-> OrElse(data.models[candidates[i].id].betaParam, QI(1)),
           trials |-> data.models[candidates[i].id].trials]
     ELSE [id |-> candidates[i].id, alpha |-> Q(3, 2), beta |-> QI(1), trials |-> 0]]

RECURSIVE SumTrials(_)
SumTrials(s) == IF s = <<>> THEN 0 ELSE Head(s).trials + SumTrials(Tail(s))

Outcome(p, duration, branch, data, saved) ==
  [protocol |-> p.id, duration |-> duration, branch |-> branch, data |-> data, saved |-> saved]

\* the close-competition branch: the ensemble decides, rec is only logged
ensembleWinners(forEnsemble) ==
  {r.selectedProtocolId :
     r \in ensembleVoting(forEnsemble, SumTrials(forEnsemble), EnsembleWeights)}

pickWinners(data, candidates, saved, winners) ==
  {Outcome(p, learnedDuration(data, p), "ensemble", data, saved) :
     p \in {c \in SeqToSet(candidates) : c.id \in winners}}

closeCompetitionBranch(data, candidates, saved, rec) ==
  pickWinners(data, candidates, saved,
              ensembleWinners(protocolsForEnsemble(data, candidates)))

\* mutant: a recommendation to explore overrides the sampled winner
standardBranchMut(data, candidates, saved, rec) ==
  IF rec.shouldExplore
  THEN {Outcome(p, p.baseSeconds, "thompson", data, saved) :
          p \in {c \in SeqToSet(candidates) : c.id = rec.protocolId[1]}}
  ELSE {Outcome(p, learnedDuration(data, p), "thompson", data, saved) :
          p \in SeqToSet(candidates)}

\* the standard branch: the highest of the sampled scores wins, and every
\* candidate's score can be the highest; rec is only logged
standardBranch(data, candidates, saved, rec) ==
  {Outcome(p, learnedDuration(data, p), "thompson", data, saved) :
     p \in SeqToSet(candidates)}

\* an early phase returns one of its candidates at random, with the base duration
pickAtRandom(subset, branch, data) ==
  {Outcome(subset[i], subset[i].baseSeconds, branch, data, FALSE) : i \in 1..Len(subset)}

\* the decision after the drift sweep
decide(swept, candidates, saved, recs) ==
  IF isCloseCompetition(allProtocolStats(swept, candidates))
  THEN UNION {closeCompetitionBranch(swept, candidates, saved, rec) : rec \in recs}
  ELSE UNION {standardBranch(swept, candidates, saved, rec) : rec \in recs}

afterSweep(data, swept, candidates) ==
  decide(swept, candidates, swept # data, getExplorationRecommendation(candidates))

hourlyPhase(data, candidates, t, hourlyUndertried) ==
  IF Len(hourlyUndertried) > 0
  THEN pickAtRandom(hourlyUndertried, "hourly", data)
  ELSE afterSweep(data, driftSweep(data, candidates, t), candidates)

undertriedPhase(data, candidates, t, undertried) ==
  IF Len(undertried) > 0
  THEN pickAtRandom(undertried, "undertried", data)
  ELSE LET hourlyTest(p) == isHourlyUndertried(data, p, getHours(t))
       IN  hourlyPhase(data, candidates, t, SelectSeq(candidates, hourlyTest))

untriedPhase(data, candidates, t, untried) ==
  IF Len(untried) > 0
  THEN pickAtRandom(untried, "untried", data)
  ELSE LET undertriedTest(p) == isUndertried(data, p)
       IN  undertriedPhase(data, candidates, t, SelectSeq(candidates, undertriedTest))

selectAmong(data, candidates, t) ==
  LET untriedTest(p) == isUntried(data, p)
  IN  untriedPhase(data, candidates, t, SelectSeq(candidates, untriedTest))

\* mutant: the whole catalog is the candidate list
selectProtocolMut(data, goal, t) == selectAmong(data, protocols, t)

\* every (protocol, duration, stored data) selectProtocol(goal) can produce at time t
selectProtocol(data, goal, t) == selectAmong(data, getProtocolsByGoal(goal), t)

-----------------------------------------------------------------------------
(* State machine *)

TickSteps == {HOUR_MS, HOURS_PER_DAY * HOUR_MS}

NoSession == <<>>

\* the number of ratings saved since the run started
ratedSince(history, t0) == Cardinality({i \in 1..Len(history) : history[i].dateISO >= t0})

Init ==
  /\ stored = None
  /\ defaultData = EmptyData
  /\ now = StartClock
  /\ ticks = 0
  /\ session = NoSession
  /\ log = "start"
  /\ call = None
  /\ ret = None

\* a goal is chosen: selectProtocol(goal), then setGoal and setProtocol
SelectProtocol(goal) ==
  LET ld == loadData(stored, defaultData)
  IN  \E o \in selectProtocol(ld.data, goal, now) :
        /\ stored' = IF o.saved THEN Stringify(o.data) ELSE stored
        /\ defaultData' = IF ld.aliased THEN o.data ELSE defaultData
        /\ session' = Some([goal |-> goal, protocol |-> o.protocol, duration |-> o.duration])
        /\ log' = o.branch
        /\ UNCHANGED <<now, ticks, call, ret>>

\* saveData, and what it means for defaultData when data is that very object
persist(data, aliased, dflt) ==
  [stored |-> Stringify(data), defaultData |-> IF aliased THEN data ELSE dflt]

runAddSession(blob, dflt, record) ==
  persist(addSession(loadData(blob, dflt).data, record), loadData(blob, dflt).aliased, dflt)

runUpdateModel(blob, dflt, protocolId, delta, currentDuration, t) ==
  persist(updateModel(loadData(blob, dflt).data, protocolId, delta, currentDuration, t),
          loadData(blob, dflt).aliased, dflt)

\* what the console of updateModel shows: whether the drift branch was taken
driftLog(rated, t) ==
  IF shouldResetDueToDrift(rated.recentVariance, rated.lastResetTimestamp, t)
  THEN "soft-reset" ELSE "updated"

afterAddSession(added, s, delta, t) ==
  [state |-> runUpdateModel(added.stored, added.defaultData, s.protocol, delta, s.duration, t),
   log |-> driftLog(ratedModel(loadData(added.stored, added.defaultData).data,
                               s.protocol, delta, t), t)]

\* saveRating(delta): addSession(record), then updateModel(protocol.id, delta, duration)
saveRating(blob, dflt, s, delta, t) ==
  afterAddSession(runAddSession(blob, dflt,
                                [dateISO |-> t, goal |-> s.goal, protocolId |-> s.protocol,
                                 seconds |-> s.duration, delta |-> delta]),
                  s, delta, t)

Rated(result) ==
  /\ stored' = result.state.stored
  /\ defaultData' = result.state.defaultData
  /\ log' = result.log
  /\ session' = NoSession
  /\ UNCHANGED <<now, ticks, call, ret>>

SaveRating(delta) ==
  /\ session # NoSession
  /\ ratedSince(loadData(stored, defaultData).data.history, StartClock) < MaxSessions
  /\ Rated(saveRating(stored, defaultData, session[1], delta, now))

\* time passes between two user actions
Tick(dt) ==
  /\ ticks < MaxTicks
  /\ now' = now + dt
  /\ ticks' = ticks + 1
  /\ UNCHANGED <<stored, defaultData, session, log, call, ret>>

\* the user of one run keeps to the goal of the first rated session
KeepsGoal(goal) ==
  LET history == loadData(stored, defaultData).data.history
  IN  IF history = <<>> THEN TRUE ELSE history[1].goal = goal

Next ==
  \/ \E goal \in Goals : KeepsGoal(goal) /\ SelectProtocol(goal)
  \/ \E delta \in Deltas : SaveRating(delta)
  \/ \E dt \in TickSteps : Tick(dt)

Spec == Init /\ [][Next]_vars

TypeOK ==
  /\ now >= StartClock
  /\ ticks \in 0..MaxTicks
  /\ log \in {"start", "untried", "undertried", "hourly", "ensemble", "thompson",
              "soft-reset", "updated"}

-----------------------------------------------------------------------------
(* Stored states of a device that has been in use.  Each is the result of  *)
(* replaying a script of select-and-rate cycles of the previous day (same  *)
(* hour) through selectProtocol, addSession and updateModel; a script      *)
(* whose protocol selectProtocol could not have returned is discarded.     *)

PastClock == StartClock - HOURS_PER_DAY * HOUR_MS

RECURSIVE Repeat(_, _)
Repeat(x, k) == IF k = 0 THEN <<>> ELSE <<x>> \o Repeat(x, k - 1)

\* rating patterns of one protocol
PatU == <<>>
PatA1 == <<1>>
PatH1 == <<-1>>
PatB2 == <<1, 1>>
PatD3 == <<1, -1, 1>>
PatW19 == Repeat(1, CLOSE_TRIALS - 1)
PatW20 == Repeat(1, CLOSE_TRIALS)
PatX20 == Repeat(1, CLOSE_TRIALS - 1) \o <<0>>
PatZ20 == Repeat(0, CLOSE_TRIALS)
PatD20 == Repeat(1, CLOSE_TRIALS - 1) \o <<-1>>
PatN1 == <<0>>
PatH3 == <<-1, -1, -1>>

\* the cycles of round r: every candidate whose pattern has an r-th rating
RECURSIVE RoundSteps(_, _, _, _, _)
RoundSteps(goal, candidates, pats, r, i) ==
  IF i > Len(candidates) THEN <<>>
  ELSE (IF r <= Len(pats[i])
        THEN <<[goal |-> goal, protocol |-> candidates[i].id, delta |-> pats[i][r]]>>
        ELSE <<>>)
       \o RoundSteps(goal, candidates, pats, r, i + 1)

RECURSIVE ScriptFrom(_, _, _, _)
ScriptFrom(goal, candidates, pats, r) ==
  IF \A i \in 1..Len(pats) : Len(pats[i]) < r THEN <<>>
  ELSE RoundSteps(goal, candidates, pats, r, 1) \o ScriptFrom(goal, candidates, pats, r + 1)

\* one select-and-rate cycle of the script: None when selectProtocol cannot
\* return the protocol of the step
rateOutcome(o, st, t) ==
  Some(updateModel(addSession(o.data, [dateISO |-> t, goal |-> st.goal,
                                       protocolId |-> st.protocol,
                                       seconds |-> o.duration, delta |-> st.delta]),
                   st.protocol, st.delta, o.duration, t))

rateOneOf(outs, st, t) ==
  IF outs = {} THEN None ELSE rateOutcome(CHOOSE x \in outs : TRUE, st, t)

ReplayStep(data, st, t) ==
  rateOneOf({o \in selectProtocol(data, st.goal, t) : o.protocol = st.protocol}, st, t)

\* the steps lo..hi of the script in order, the first half before the second
RECURSIVE Replay(_, _, _, _, _)
Replay(blob, script, lo, hi, t) ==
  IF blob = None \/ lo > hi THEN blob
  ELSE IF lo = hi THEN ReplayStep(blob[1], script[lo], t)
  ELSE Replay(Replay(blob, script, lo, (lo + hi) \div 2, t),
              script, (lo + hi) \div 2 + 1, hi, t)

ReplayFocus(pats) ==
  LET script == ScriptFrom("focus", getProtocolsByGoal("focus"), pats, 1)
  IN  Replay(Some(EmptyData), script, 1, Len(script), PastClock)

Usable(blobs) == {b \in blobs : IsSome(b)}

SelectScenarios ==
  Usable({ReplayFocus(pats) : pats \in
    { <<PatA1, PatU, PatU>>,
      <<PatA1, PatA1, PatH1>>,
      <<PatB2, PatH1, PatH1>>,
      <<PatD3, PatH1, PatH1>>,
      <<PatB2, PatB2, PatB2>>,
      <<PatD3, PatB2, PatB2>>,
      <<PatW20, PatX20, PatB2>>,
      <<PatW20, PatZ20, PatH1>>,
      <<PatW20, PatW19, PatB2>>,
      <<PatX20, PatW20, PatB2>>,
      <<PatD20, PatW20, PatX20>>,
      <<PatW20, PatX20, PatH1>> }})

DriftScenarios ==
  Usable({ReplayFocus(pats) : pats \in
    { <<PatD20, PatH1, PatH1>>,
      <<PatW19, PatH1, PatH1>> }})

InitFrom(blobs) ==
  /\ stored \in blobs
  /\ defaultData = EmptyData
  /\ now = StartClock
  /\ ticks = 0
  /\ session = NoSession
  /\ log = "start"
  /\ call = None
  /\ ret = None

\* selections on a device in use: any goal, at any of the clock values
SelInit == InitFrom(SelectScenarios)

SelNext ==
  \/ \E goal \in Goals : SelectProtocol(goal)
  \/ \E dt \in TickSteps : Tick(dt)

SelSpec == SelInit /\ [][SelNext]_vars

\* further sessions on a device in use
DriftInit == InitFrom(DriftScenarios)

DriftNext ==
  \/ SelectProtocol("focus")
  \/ \E delta \in {-1, 1} : SaveRating(delta)
  \/ \E dt \in TickSteps : Tick(dt)

DriftSpec == DriftInit /\ [][DriftNext]_vars

\* select-and-rate cycles on a fresh device and on devices in use, every
\* rating allowed, within one hour
RateScenarios ==
  {None} \cup
  Usable({ReplayFocus(pats) : pats \in
    { <<PatA1, PatA1, PatH1>>,
      <<PatN1, PatN1, PatN1>>,
      <<PatB2, PatB2, PatB2>>,
      <<PatH3, PatH1, PatH1>>,
      <<PatX20, PatH1, PatH1>> }})

RateInit == InitFrom(RateScenarios)

RateNext ==
  \/ SelectProtocol("focus")
  \/ \E delta \in Deltas : SaveRating(delta)

RateSpec == RateInit /\ [][RateNext]_vars

\* shouldResetDueToDrift called on its own, at the boundaries of its two tests
FnVariances == {QI(0), Q(6, 25), Q(29, 100), Q(3, 10), Q(31, 100), Q(2, 5), Q(16, 25), QI(1)}

FnElapsed ==
  {0, 1, DRIFT_COOLDOWN_MS - 1, DRIFT_COOLDOWN_MS, DRIFT_COOLDOWN_MS + 1,
   HOURS_PER_DAY * HOUR_MS}

FnTimestamps == {None, Some(0)} \cup {Some(StartClock - e) : e \in FnElapsed}

FnInit ==
  /\ stored = None
  /\ defaultData = EmptyData
  /\ now = StartClock
  /\ ticks = 0
  /\ session = NoSession
  /\ log = "start"
  /\ call \in {Some([recentVariance |-> v, lastResetTimestamp |-> ts]) :
                 v \in FnVariances, ts \in FnTimestamps}
  /\ ret = None

CallShouldReset ==
  /\ call # None
  /\ ret = None
  /\ ret' = Some(shouldResetDueToDrift(call[1].recentVariance,
                                       call[1].lastResetTimestamp, now))
  /\ UNCHANGED <<stored, defaultData, now, ticks, session, log, call>>

FnNext == CallShouldReset

FnSpec == FnInit /\ [][FnNext]_vars

\* ensembleVoting's combination of four votes on its own: the votes are the
\* outcomes of the four strategies, each naming one of the protocols passed
\* in with a confidence in [0, 1]
EnsConfidences == {QI(0), Q(3, 10), QI(1)}

EnsAlgorithms == <<"thompson", "ucb", "epsilonGreedy", "softmax">>

\* the candidate lists: the first n protocols of the catalog
EnsProtocolLists == {SubSeq(protocols, 1, n) : n \in 1..3}

EnsVotes(protos) ==
  {[i \in 1..4 |-> [algorithm |-> EnsAlgorithms[i], protocolId |-> ids[i],
                    confidence |-> confs[i]]] :
     ids \in [1..4 -> {p.id : p \in SeqToSet(protos)}],
     confs \in [1..4 -> EnsConfidences]}

EnsInit ==
  /\ stored = None
  /\ defaultData = EmptyData
  /\ now = StartClock
  /\ ticks = 0
  /\ session = NoSession
  /\ log = "start"
  /\ call \in {Some([votes |-> v, weights |-> w]) :
                 v \in UNION {EnsVotes(protos) : protos \in EnsProtocolLists},
                 w \in {EnsembleWeights, DefaultEnsembleWeights}}
  /\ ret = None

CallEnsembleVoting ==
  /\ call # None
  /\ ret = None
  /\ ret' = Some(combineVotes(call[1].votes, call[1].weights))
  /\ UNCHANGED <<stored, defaultData, now, ticks, session, log, call>>

EnsNext == CallEnsembleVoting

EnsSpec == EnsInit /\ [][EnsNext]_vars

\* clearData: the blob is removed
ClearData ==
  /\ stored # None
  /\ stored' = None
  /\ UNCHANGED <<defaultData, now, ticks, session, log, call, ret>>

\* the blob is damaged outside the program (a partial write, an edit)
CorruptBlob ==
  /\ stored # None
  /\ stored # Unparseable
  /\ stored' = Unparseable
  /\ UNCHANGED <<defaultData, now, ticks, session, log, call, ret>>

\* sessions for focus on a fresh device, with clears and damaged blobs
ClearNext ==
  \/ SelectProtocol("focus")
  \/ \E delta \in Deltas : SaveRating(delta)
  \/ ClearData
  \/ CorruptBlob

ClearSpec == Init /\ [][ClearNext]_vars

\* the insights pages: a query of advanced-insights on the loaded data
Queries == {"getProtocolInsights", "getAlgorithmMetrics", "getTopRecommendations"}

runQuery(query, data) ==
  IF query = "getProtocolInsights" THEN {getProtocolInsights(data)}
  ELSE IF query = "getAlgorithmMetrics" THEN {getAlgorithmMetrics(data)}
  ELSE getTopRecommendations(data, 3)

\* call holds the query and its argument, ret the result and the argument
\* object after the call; the caller's object is defaultData itself when
\* there is no blob
ViewInsights(query) ==
  LET ld == loadData(stored, defaultData)
  IN  \E o \in runQuery(query, ld.data) :
        /\ call' = Some([query |-> query, data |-> ld.data])
        /\ ret' = Some(o)
        /\ defaultData' = IF ld.aliased THEN o.data ELSE defaultData
        /\ UNCHANGED <<stored, now, ticks, session, log>>

InsightsInit == InitFrom({None} \cup SelectScenarios \cup DriftScenarios)

InsightsNext ==
  \/ \E query \in Queries : ViewInsights(query)
  \/ SelectProtocol("focus")
  \/ \E dt \in TickSteps : Tick(dt)

InsightsSpec == InsightsInit /\ [][InsightsNext]_vars

-----------------------------------------------------------------------------
(* transfer-learning.ts *)

\* a JavaScript object used as a map: assignment of one key
Put(map, k, v) == [x \in DOMAIN map \cup {k} |-> IF x = k THEN v ELSE map[x]]

\* protocolId.includes(word) on the ids of the catalog
includes(protocolId, word) ==
  \/ word = "box" /\ protocolId = "box-breathing"
  \/ word = "4-7-8" /\ protocolId = "4-7-8-breathing"
  \/ word = "nostril" /\ protocolId = "alternate-nostril"
  \/ word = "sigh" /\ protocolId = "physiological-sigh"
  \/ word = "eye" /\ protocolId = "eye-break"

AbsQ(q) == IF q.n < 0 THEN Q(-q.n, q.d) ELSE q

RECURSIVE isqrt(_, _, _)
isqrt(x, lo, hi) ==
  IF lo >= hi THEN lo
  ELSE LET mid == (lo + hi + 1) \div 2
       IN  IF mid * mid <= x THEN isqrt(x, mid, hi) ELSE isqrt(x, lo, mid - 1)

\* Math.sqrt, rounded down to two decimals
sqrtQ(q) == Q(isqrt(QFloor(QMul(q, QI(10000))), 0, 10000), 100)

initializeTransferLearning ==
  [protocolFeatures |-> <<>>,
   similarityMatrix |-> <<>>,
   metaParameters |-> [learningRate |-> Q(1, 10), similarityThreshold |-> Q(3, 5),
                       transferStrength |-> Q(2, 5)],
   performanceHistory |-> <<>>]

breathingRateOf(protocolId) ==
  IF includes(protocolId, "box") THEN 4
  ELSE IF includes(protocolId, "4-7-8") THEN 3
  ELSE IF includes(protocolId, "nostril") THEN 5
  ELSE IF includes(protocolId, "sigh") THEN 6
  ELSE 10

complexityOf(protocolId) ==
  IF includes(protocolId, "nostril") THEN 4
  ELSE IF includes(protocolId, "4-7-8") THEN 3
  ELSE IF includes(protocolId, "box") THEN 2
  ELSE 1

physicalDemandOf(protocolId) ==
  IF includes(protocolId, "nostril") THEN 3
  ELSE IF breathingRateOf(protocolId) < 5 THEN 2
  ELSE 1

cognitiveLoadOf(protocolId) ==
  IF includes(protocolId, "4-7-8") THEN 4
  ELSE IF includes(protocolId, "box") THEN 3
  ELSE IF includes(protocolId, "nostril") THEN 3
  ELSE IF includes(protocolId, "eye") THEN 2
  ELSE 1

extractProtocolFeatures(protocolId, baseSeconds, goalSupport) ==
  [id |-> protocolId,
   durationSeconds |-> baseSeconds,
   breathingRate |-> breathingRateOf(protocolId),
   complexity |-> complexityOf(protocolId),
   physicalDemand |-> physicalDemandOf(protocolId),
   cognitiveLoad |-> cognitiveLoadOf(protocolId),
   goalAffinities |-> [g \in Goals |-> IF g \in goalSupport THEN Q(7, 10) ELSE Q(3, 10)],
   embedding |-> << Q(breathingRateOf(protocolId), 10),
                    Q(complexityOf(protocolId), 5),
                    Q(physicalDemandOf(protocolId), 5),
                    Q(cognitiveLoadOf(protocolId), 5),
                    Q(baseSeconds, 60) >>]

RECURSIVE dotProduct(_, _, _)
dotProduct(e1, e2, n) ==
  IF n = 0 THEN QI(0) ELSE QAdd(dotProduct(e1, e2, n - 1), QMul(e1[n], e2[n]))

norm(e) == sqrtQ(dotProduct(e, e, Len(e)))

featureDiff(features1, features2) ==
  QAdd(QAdd(QAdd(QAdd(
    AbsQ(Q(features1.breathingRate - features2.breathingRate, 10)),
    AbsQ(Q(features1.complexity - features2.complexity, 5))),
    AbsQ(Q(features1.physicalDemand - features2.physicalDemand, 5))),
    AbsQ(Q(features1.cognitiveLoad - features2.cognitiveLoad, 5))),
    AbsQ(Q(features1.durationSeconds - features2.durationSeconds, 60)))

calculateProtocolSimilarity(features1, features2) ==
  LET embeddingSimilarity ==
        QDiv(dotProduct(features1.embedding, features2.embedding, Len(features1.embedding)),
             QMul(norm(features1.embedding), norm(features2.embedding)))
      featureSimilarity == QSub(QI(1), QDiv(featureDiff(features1, features2), QI(5)))
  IN  QAdd(QMul(Q(3, 5), embeddingSimilarity), QMul(Q(2, 5), featureSimilarity))

rowOf(matrix, id) == IF id \in DOMAIN matrix THEN matrix[id] ELSE <<>>

\* mutant: the new row is written but not mirrored into the other rows
similarityRowsMut(knowledge, newProtocolId, row) ==
  Put(knowledge.similarityMatrix, newProtocolId, row)

\* the matrix after the forEach: the row of newProtocolId and its mirror
similarityRows(knowledge, newProtocolId, row) ==
  [x \in DOMAIN knowledge.similarityMatrix \cup DOMAIN knowledge.protocolFeatures |->
     IF x = newProtocolId THEN row
     ELSE IF x \in DOMAIN knowledge.protocolFeatures
          THEN Put(rowOf(knowledge.similarityMatrix, x), newProtocolId, row[x])
          ELSE knowledge.similarityMatrix[x]]

updateSimilarityMatrix(knowledge, newProtocolId) ==
  IF newProtocolId \notin DOMAIN knowledge.protocolFeatures THEN knowledge
  ELSE LET newFeature == knowledge.protocolFeatures[newProtocolId]
           row == [otherId \in DOMAIN knowledge.protocolFeatures |->
                     IF otherId = newProtocolId THEN QI(1)
                     ELSE calculateProtocolSimilarity(newFeature,
                                                      knowledge.protocolFeatures[otherId])]
       IN  [knowledge EXCEPT !.similarityMatrix =
                               similarityRows(knowledge, newProtocolId, row)]

\* the protocols of the transfer-learning runs and the durations they are
\* registered with: the catalog's and the dashboard's default
KnowIds == {"box-breathing", "eye-break", "alternate-nostril"}

KnowDurations(protocolId) == {getProtocolById(protocolId).baseSeconds, 240}

\* ret holds the TransferKnowledge object the calls work on
KnowInit ==
  /\ stored = None
  /\ defaultData = EmptyData
  /\ now = StartClock
  /\ ticks = 0
  /\ session = NoSession
  /\ log = "start"
  /\ call = None
  /\ ret = Some(initializeTransferLearning)

RegisterProtocol(protocolId, baseSeconds) ==
  /\ call' = Some([fn |-> "extractProtocolFeatures", protocolId |-> protocolId])
  /\ ret' = Some([ret[1] EXCEPT !.protocolFeatures =
                    Put(@, protocolId,
                        extractProtocolFeatures(protocolId, baseSeconds,
                                                getProtocolById(protocolId).supports))])
  /\ UNCHANGED <<stored, defaultData, now, ticks, session, log>>

UpdateSimilarityMatrix(protocolId) ==
  /\ call' = Some([fn |-> "updateSimilarityMatrix", protocolId |-> protocolId])
  /\ ret' = Some(updateSimilarityMatrix(ret[1], protocolId))
  /\ UNCHANGED <<stored, defaultData, now, ticks, session, log>>

KnowNext ==
  \/ \E protocolId \in KnowIds : \E baseSeconds \in KnowDurations(protocolId) :
       RegisterProtocol(protocolId, baseSeconds)
  \/ \E protocolId \in KnowIds : UpdateSimilarityMatrix(protocolId)

KnowSpec == KnowInit /\ [][KnowNext]_vars

-----------------------------------------------------------------------------
(* multi-goal-optimization.ts *)

\* the updates of one run of the hierarchical model
MaxUpdates == 3

initializeHierarchicalModel ==
  [globalPrior |-> [alpha |-> Q(3, 2), beta |-> QI(1)],
   goalPriors |-> [g \in Goals |-> [alpha |-> Q(3, 2), beta |-> QI(1), protocolCount |-> 0]],
   protocolGoalModels |-> <<>>]

\* the key `${protocolId}:${goal}`
pgKey(protocolId, goal) == <<protocolId, goal>>

\* protocol-goal data blended with the goal prior by the shrinkage
shrunkPrior(protocolGoalModel, goalPrior) ==
  LET shrinkage == IF QLt(Q(3, 10), Q(5, protocolGoalModel.trials))
                   THEN Q(3, 10) ELSE Q(5, protocolGoalModel.trials)
  IN  [alpha |-> QAdd(QMul(protocolGoalModel.alpha, QSub(QI(1), shrinkage)),
                      QMul(goalPrior.alpha, shrinkage)),
       beta |-> QAdd(QMul(protocolGoalModel.beta, QSub(QI(1), shrinkage)),
                     QMul(goalPrior.beta, shrinkage))]

getEffectivePrior(hierarchicalModel, protocolId, goal) ==
  LET key == pgKey(protocolId, goal)
      goalPrior == hierarchicalModel.goalPriors[goal]
  IN  IF /\ key \in DOMAIN hierarchicalModel.protocolGoalModels
         /\ hierarchicalModel.protocolGoalModels[key].trials >= 3
      THEN shrunkPrior(hierarchicalModel.protocolGoalModels[key], goalPrior)
      ELSE IF goalPrior.protocolCount > 0
           THEN [alpha |-> goalPrior.alpha, beta |-> goalPrior.beta]
           ELSE hierarchicalModel.globalPrior

\* mutant: the pooled level takes the whole observation
blendMut(prior, updated, weight) ==
  [alpha |-> updated.alpha, beta |-> updated.beta]

\* prior * (1 - weight) + updated * weight
blend(prior, updated, weight) ==
  [alpha |-> QAdd(QMul(prior.alpha, QSub(QI(1), weight)), QMul(updated.alpha, weight)),
   beta |-> QAdd(QMul(prior.beta, QSub(QI(1), weight)), QMul(updated.beta, weight))]

\* the protocol-goal model the update works on, created from the effective
\* prior when the key is new
pgModelOf(hierarchicalModel, protocolId, goal) ==
  LET key == pgKey(protocolId, goal)
      prior == getEffectivePrior(hierarchicalModel, protocolId, goal)
  IN  IF key \in DOMAIN hierarchicalModel.protocolGoalModels
      THEN hierarchicalModel.protocolGoalModels[key]
      ELSE [alpha |-> prior.alpha, beta |-> prior.beta, trials |-> 0]

updatedPgModel(pgModel, reward) ==
  LET updated == updateBetaParams(pgModel.alpha, pgModel.beta, reward)
  IN  [alpha |-> updated.alpha, beta |-> updated.beta, trials |-> pgModel.trials + 1]

updatedGoalPrior(goalPrior, reward) ==
  LET goalUpdated == blend(goalPrior,
                           updateBetaParams(goalPrior.alpha, goalPrior.beta, reward),
                           Q(5, 100))
  IN  [alpha |-> goalUpdated.alpha, beta |-> goalUpdated.beta,
       protocolCount |-> goalPrior.protocolCount + 1]

updatedGlobalPrior(globalPrior, reward) ==
  blend(globalPrior, updateBetaParams(globalPrior.alpha, globalPrior.beta, reward),
        Q(2, 100))

updateHierarchicalModel(hierarchicalModel, protocolId, goal, reward) ==
  [protocolGoalModels |->
     Put(hierarchicalModel.protocolGoalModels, pgKey(protocolId, goal),
         updatedPgModel(pgModelOf(hierarchicalModel, protocolId, goal), reward)),
   goalPriors |->
     [hierarchicalModel.goalPriors EXCEPT ![goal] = updatedGoalPrior(@, reward)],
   globalPrior |-> updatedGlobalPrior(hierarchicalModel.globalPrior, reward)]

\* the protocols and rewards of the hierarchical runs
HierIds == {"box-breathing", "eye-break"}

HierRewards == {deltaToReward(delta) : delta \in Deltas}

\* the updates made so far: every update raises one trials counter by one
updatesOf(hierarchicalModel) ==
  LET pg == hierarchicalModel.protocolGoalModels
      RECURSIVE sumTrials(_)
      sumTrials(keys) ==
        IF keys = {} THEN 0
        ELSE LET k == CHOOSE x \in keys : TRUE
             IN  pg[k].trials + sumTrials(keys \ {k})
  IN  sumTrials(DOMAIN pg)

\* ret holds the HierarchicalModel object the calls work on
HierInit ==
  /\ stored = None
  /\ defaultData = EmptyData
  /\ now = StartClock
  /\ ticks = 0
  /\ session = NoSession
  /\ log = "start"
  /\ call = None
  /\ ret = Some(initializeHierarchicalModel)

UpdateHierarchicalModel(protocolId, goal, reward) ==
  /\ updatesOf(ret[1]) < MaxUpdates
  /\ call' = Some([fn |-> "updateHierarchicalModel", protocolId |-> protocolId,
                   goal |-> goal, reward |-> reward])
  /\ ret' = Some(updateHierarchicalModel(ret[1], protocolId, goal, reward))
  /\ UNCHANGED <<stored, defaultData, now, ticks, session, log>>

HierNext ==
  \E protocolId \in HierIds : \E goal \in Goals : \E reward \in HierRewards :
    UpdateHierarchicalModel(protocolId, goal, reward)

HierSpec == HierInit /\ [][HierNext]_vars

-----------------------------------------------------------------------------
(* Properties *)

\* the data a call of loadData returns in the current state
CurrentData == loadData(stored, defaultData).data

\* the candidates of goal that have never been rated or were fully reset
ZeroTrialIds(data, goal) ==
  {p.id : p \in {c \in SeqToSet(getProtocolsByGoal(goal)) :
                   \/ c.id \notin DOMAIN data.models
                   \/ data.models[c.id].trials = 0}}

\* the candidates of goal with fewer than two trials whose emaAvg is not below -0.3
BuildingIds(data, goal) ==
  {p.id : p \in {c \in SeqToSet(getProtocolsByGoal(goal)) :
                   /\ c.id \in DOMAIN data.models
                   /\ data.models[c.id].trials < 2
                   /\ ~(data.models[c.id].emaAvg.n * 10 < -3 * data.models[c.id].emaAvg.d)}}

\* C1: whenever a candidate of the goal has no stored model or zero trials,
\* every possible result of selectProtocol is one of those candidates with its
\* base duration, and the stored data is neither changed nor saved
C1_UntriedFirst ==
  \A goal \in Goals :
    ZeroTrialIds(CurrentData, goal) # {} =>
      \A o \in selectProtocol(CurrentData, goal, now) :
        /\ o.protocol \in ZeroTrialIds(CurrentData, goal)
        /\ o.duration = getProtocolById(o.protocol).baseSeconds
        /\ o.data = CurrentData
        /\ ~o.saved

\* a selection returned an untried candidate while another candidate of the
\* goal had a drift reset pending (variance at the threshold, cooldown over)
C1_Witness ==
  /\ session # NoSession
  /\ log = "untried"
  /\ session[1].protocol \in ZeroTrialIds(CurrentData, session[1].goal)
  /\ \E c \in SeqToSet(getProtocolsByGoal(session[1].goal)) :
       /\ c.id \in DOMAIN CurrentData.models
       /\ CurrentData.models[c.id].trials >= CLOSE_TRIALS
       /\ ~QLt(CurrentData.models[c.id].recentVariance, DRIFT_VARIANCE_THRESHOLD)
       /\ IsSome(CurrentData.models[c.id].lastResetTimestamp)
       /\ now - CurrentData.models[c.id].lastResetTimestamp[1] >= DRIFT_COOLDOWN_MS

\* C2: starting from the empty state, as long as the rated sessions are the
\* first N of a goal with N candidates they are for distinct protocols, and
\* when the N-th has been rated every candidate of the goal has trials >= 1
C2_FirstRoundCoversAll ==
  \A goal \in Goals :
    LET history == CurrentData.history
        N == Len(getProtocolsByGoal(goal))
        k == IF Len(history) < N THEN Len(history) ELSE N
    IN  (\A i \in 1..k : history[i].goal = goal) =>
          /\ \A i, j \in 1..k : i # j => history[i].protocolId # history[j].protocolId
          /\ Len(history) = N =>
               \A c \in SeqToSet(getProtocolsByGoal(goal)) :
                 /\ c.id \in DOMAIN CurrentData.models
                 /\ CurrentData.models[c.id].trials >= 1

\* three select-and-rate cycles for focus have been completed from the empty state
C2_Witness ==
  /\ Len(CurrentData.history) = Len(getProtocolsByGoal("focus"))
  /\ \A i \in 1..Len(CurrentData.history) : CurrentData.history[i].goal = "focus"
  /\ session = NoSession
  /\ log = "updated"
  /\ \A c \in SeqToSet(getProtocolsByGoal("focus")) :
       c.id \in DOMAIN CurrentData.models /\ CurrentData.models[c.id].trials = 1

WithoutHourlyModels(data) ==
  [data EXCEPT !.models =
     [id \in DOMAIN data.models |-> [data.models[id] EXCEPT !.hourlyModels = <<>>]]]

\* what a selection hands back to its caller
Results(outcomes) == {<<o.protocol, o.duration>> : o \in outcomes}

\* C4: the hour-of-day sub-models never influence selection: with or without
\* the stored hourlyModels selectProtocol has the same possible results
\* (protocol and duration), and no result comes from an hourly-exploration phase
C4_HourlyModelsIgnored ==
  \A goal \in Goals :
    /\ Results(selectProtocol(CurrentData, goal, now))
         = Results(selectProtocol(WithoutHourlyModels(CurrentData), goal, now))
    /\ \A o \in selectProtocol(CurrentData, goal, now) : o.branch # "hourly"

\* the drift test as the claim words it, on the stored fields of a model
SignalsDrift(model, t) ==
  /\ ~(model.recentVariance.n * 100 < 30 * model.recentVariance.d)
  /\ \/ model.lastResetTimestamp = None
     \/ t - model.lastResetTimestamp[1] >= 3600000

\* the state of an item after the full reset at time t
IsFullyReset(model, t) ==
  /\ model.trials = 0
  /\ model.alphaParam = Q(3, 2)
  /\ model.betaParam = QI(1)
  /\ model.medDuration = None
  /\ model.lastResetTimestamp = Some(t)

\* C5: in every selection that gets past the untried, undertried and hourly
\* phases, each candidate whose recentVariance and lastResetTimestamp signal
\* drift is fully reset (trials 0, alpha 1.5, beta 1, no learned dose,
\* lastResetTimestamp = now) and the data is saved; every other stored model
\* is left as it was
C5_DriftSweepResets ==
  \A goal \in Goals :
    \A o \in selectProtocol(CurrentData, goal, now) :
      o.branch \in {"ensemble", "thompson"} =>
        /\ DOMAIN o.data.models = DOMAIN CurrentData.models
        /\ o.data.history = CurrentData.history
        /\ \A id \in DOMAIN CurrentData.models :
             IF /\ \E c \in SeqToSet(getProtocolsByGoal(goal)) : c.id = id
                /\ SignalsDrift(CurrentData.models[id], now)
             THEN IsFullyReset(o.data.models[id], now) /\ o.saved
             ELSE o.data.models[id] = CurrentData.models[id]

\* a selection has just swept: the selected goal has a fully reset candidate
\* stamped with the current time, next to a candidate the sweep left alone
C5_Witness ==
  /\ session # NoSession
  /\ log \in {"ensemble", "thompson"}
  /\ stored # None
  /\ \E id \in DOMAIN CurrentData.models :
       /\ IsFullyReset(CurrentData.models[id], now)
       /\ CurrentData.models[id].windowScores = <<>>
       /\ \E r \in SeqToSet(CurrentData.history) : r.protocolId = id
  /\ \E id \in DOMAIN CurrentData.models : CurrentData.models[id].trials > 0

\* the candidates with at least one trial, with their posterior means
Ranked(data, goal) ==
  LET cands == getProtocolsByGoal(goal)
      tried == {i \in 1..Len(cands) :
                  cands[i].id \in DOMAIN data.models /\ data.models[cands[i].id].trials >= 1}
      mean(i) == LET m == data.models[cands[i].id]
                     a == IF m.alphaParam.n = 0 THEN Q(3, 2) ELSE m.alphaParam
                     b == IF m.betaParam.n = 0 THEN QI(1) ELSE m.betaParam
                 IN  QDiv(a, QAdd(a, b))
      \* the number of tried candidates ranked before i (ties keep catalog order)
      before(i) == Cardinality({j \in tried : \/ QLt(mean(i), mean(j))
                                              \/ (mean(j) = mean(i) /\ j < i)})
  IN  [tried |-> tried,
       rank |-> [i \in tried |-> before(i)],
       mean |-> [i \in tried |-> mean(i)],
       trials |-> [i \in tried |-> data.models[cands[i].id].trials]]

\* the top two are both at 20 trials or more and less than 0.05 apart
TopTwoClose(data, goal) ==
  LET r == Ranked(data, goal)
  IN  \E i, j \in r.tried :
        /\ r.rank[i] = 0
        /\ r.rank[j] = 1
        /\ r.trials[i] >= 20
        /\ r.trials[j] >= 20
        /\ LET diff == QSub(r.mean[i], r.mean[j]) IN diff.n * 100 < 5 * diff.d

\* the learned dose of a protocol, else its base duration
DoseOrBase(data, id) ==
  IF id \in DOMAIN data.models /\ data.models[id].medDuration # None
  THEN data.models[id].medDuration[1]
  ELSE getProtocolById(id).baseSeconds

\* C6: a selection that gets past the early phases is decided by the ensemble
\* exactly when the two best-ranked candidates with trials >= 1 both have
\* trials >= 20 and means less than 0.05 apart, and by Thompson sampling
\* otherwise; either way the duration is the winner's learned dose, else its
\* base duration
C6_CloseCompetitionDelegates ==
  \A goal \in Goals :
    \A o \in selectProtocol(CurrentData, goal, now) :
      o.branch \in {"ensemble", "thompson"} =>
        /\ (o.branch = "ensemble") <=> TopTwoClose(o.data, goal)
        /\ o.duration = DoseOrBase(o.data, o.protocol)

\* the ensemble decided a selection and the winner came with a learned dose
C6_Witness ==
  /\ session # NoSession
  /\ log = "ensemble"
  /\ TopTwoClose(CurrentData, session[1].goal)
  /\ session[1].duration # getProtocolById(session[1].protocol).baseSeconds
  /\ session[1].duration = DoseOrBase(CurrentData, session[1].protocol)

\* C7: in the close-competition branch and in the standard branch the possible
\* results and the data to persist are the same for every value
\* getExplorationRecommendation can return
C7_ExplorationGateAdvisory ==
  \A goal \in Goals :
    LET candidates == getProtocolsByGoal(goal)
        swept == driftSweep(CurrentData, candidates, now)
        saved == swept # CurrentData
        recs == getExplorationRecommendation(candidates)
        noExplore == [shouldExplore |-> FALSE, protocolId |-> None]
    IN  (\A o \in selectProtocol(CurrentData, goal, now) :
           o.branch \in {"ensemble", "thompson"}) =>
          /\ noExplore \in recs
          /\ \A rec \in recs :
               IF isCloseCompetition(allProtocolStats(swept, candidates))
               THEN closeCompetitionBranch(swept, candidates, saved, rec)
                      = closeCompetitionBranch(swept, candidates, saved, noExplore)
               ELSE standardBranch(swept, candidates, saved, rec)
                      = standardBranch(swept, candidates, saved, noExplore)

\* the standard branch returned a protocol with its learned dose although the
\* gate can recommend exploring another protocol
C7_Witness ==
  /\ session # NoSession
  /\ log = "thompson"
  /\ session[1].duration # getProtocolById(session[1].protocol).baseSeconds
  /\ \E rec \in getExplorationRecommendation(getProtocolsByGoal(session[1].goal)) :
       rec.shouldExplore /\ rec.protocolId # Some(session[1].protocol)

\* C8: shouldResetDueToDrift is true exactly when the variance is at least
\* 0.30 and there is no prior reset or at least 3,600,000 ms have passed since
\* it; in particular it is false for every variance below 0.30
C8_ShouldResetExactly ==
  ret # None =>
    (ret[1] <=>
       /\ ~(call[1].recentVariance.n * 100 < 30 * call[1].recentVariance.d)
       /\ \/ call[1].lastResetTimestamp = None
          \/ now - call[1].lastResetTimestamp[1] >= 3600000)

\* the call at both boundaries: variance 0.30, reset exactly 3,600,000 ms ago
C8_Witness ==
  /\ ret = Some(TRUE)
  /\ call[1].recentVariance = Q(3, 10)
  /\ call[1].lastResetTimestamp = Some(now - 3600000)

\* the rating just saved ended in the soft reset of id: a record for id was
\* appended and the score window of id was emptied
SoftResetStep(id) ==
  /\ Len(CurrentData'.history) = Len(CurrentData.history) + 1
  /\ CurrentData'.history[Len(CurrentData'.history)].protocolId = id
  /\ CurrentData'.models[id].windowScores = <<>>

\* the selection just made fully reset id
FullResetStep(id) ==
  /\ id \in DOMAIN CurrentData.models
  /\ CurrentData.models[id].trials > 0
  /\ CurrentData'.models[id].trials = 0

\* the recorded time of the last reset of id
LastReset(data, id) ==
  IF id \in DOMAIN data.models THEN data.models[id].lastResetTimestamp ELSE None

\* C9: no reset thrashing: every reset of an item, soft or full, records the
\* current time as the item's last reset and happens only if the last recorded
\* reset is at least 3,600,000 ms old; no other step changes the record
C9_NoResetThrashing ==
  [][\A id \in ProtocolIds :
       IF SoftResetStep(id) \/ FullResetStep(id)
       THEN /\ \/ LastReset(CurrentData, id) = None
               \/ now - LastReset(CurrentData, id)[1] >= 3600000
            /\ LastReset(CurrentData', id) = Some(now)
       ELSE LastReset(CurrentData', id) = LastReset(CurrentData, id)]_vars

\* drift showed again within the cooldown of a reset and the item was kept:
\* the window of three or more ratings has variance >= 0.30, the last reset is
\* less than 3,600,000 ms old
C9_Witness ==
  \E id \in DOMAIN CurrentData.models :
    LET m == CurrentData.models[id]
    IN  /\ m.lastResetTimestamp # None
        /\ now - m.lastResetTimestamp[1] < 3600000
        /\ Len(m.windowScores) >= 3
        /\ ~QLt(calculateRecentVariance(m.windowScores), Q(3, 10))
        /\ log = "updated"

\* alpha + beta of a stored model (the prior of updateModel when there is none)
Confidence(data, id) ==
  IF id \in DOMAIN data.models
  THEN QAdd(data.models[id].alphaParam, data.models[id].betaParam)
  ELSE QI(2)

\* C10: when updateModel soft-resets an item, alpha + beta after the reset is
\* 2 + floor(0.25 * (s - 2)) and strictly smaller than s, where s is alpha +
\* beta just before the reset (the stored sum plus the rating being saved)
C10_SoftResetShrinks ==
  [][\A id \in ProtocolIds :
       SoftResetStep(id) =>
         LET s == QAdd(Confidence(CurrentData, id), QI(1))
             kept == (s.n - 2 * s.d) \div (4 * s.d)
         IN  /\ Confidence(CurrentData', id) = QI(2 + kept)
             /\ QLt(Confidence(CurrentData', id), s)]_vars

\* a soft reset has just cut alpha + beta from 22 to 7
C10_Witness ==
  /\ log = "soft-reset"
  /\ session = NoSession
  /\ \E id \in DOMAIN CurrentData.models :
       /\ CurrentData.models[id].lastResetTimestamp = Some(now)
       /\ CurrentData.models[id].windowScores = <<>>
       /\ CurrentData.models[id].trials = CLOSE_TRIALS
       /\ Confidence(CurrentData, id) = QI(7)

\* the rating just saved was a rating of id
RatingStep(id) ==
  /\ Len(CurrentData'.history) = Len(CurrentData.history) + 1
  /\ CurrentData'.history[Len(CurrentData'.history)].protocolId = id

\* the delta of the last rating saved
LastDelta(data) == data.history[Len(data.history)].delta

\* the stored alpha and beta of id; an item without a stored model is rated
\* from the parameters (1, 1)
StoredPosterior(data, id) ==
  IF id \in DOMAIN data.models
  THEN [alpha |-> data.models[id].alphaParam, beta |-> data.models[id].betaParam]
  ELSE [alpha |-> QI(1), beta |-> QI(1)]

\* one conjugate update: +1 to alpha for 'better', +1 to beta for 'worse',
\* +0.5 to both for neutral
ConjugateUpdate(post, delta) ==
  IF delta = 1 THEN [alpha |-> QAdd(post.alpha, QI(1)), beta |-> post.beta]
  ELSE IF delta = -1 THEN [alpha |-> post.alpha, beta |-> QAdd(post.beta, QI(1))]
  ELSE [alpha |-> QAdd(post.alpha, Q(1, 2)), beta |-> QAdd(post.beta, Q(1, 2))]

PosteriorMean(post) == QDiv(post.alpha, QAdd(post.alpha, post.beta))

\* C11: a soft reset preserves the posterior mean: the mean of the stored
\* posterior after the reset equals the mean just before it (the stored
\* posterior plus the rating being saved), within 0.000001
C11_SoftResetKeepsMean ==
  [][\A id \in ProtocolIds :
       SoftResetStep(id) =>
         LET before == PosteriorMean(ConjugateUpdate(StoredPosterior(CurrentData, id),
                                                     LastDelta(CurrentData')))
             after == PosteriorMean(StoredPosterior(CurrentData', id))
         IN  /\ QLe(QSub(after, before), Q(1, 1000000))
             /\ QLe(QSub(before, after), Q(1, 1000000))]_vars

C13_PriorIsBeta15 ==
  [][\A id \in ProtocolIds :
       (/\ RatingStep(id)
        /\ \/ id \notin DOMAIN CurrentData.models
           \/ CurrentData.models[id].trials = 0)
       => StoredPosterior(CurrentData', id) =
            ConjugateUpdate([alpha |-> Q(3, 2), beta |-> QI(1)], LastDelta(CurrentData'))]_vars

\* C14: every stored posterior has alphaParam >= 1 and betaParam >= 1, and
\* every hourly sub-model has alpha >= 1 and beta >= 1, whatever ratings, soft
\* resets and full resets led to the state
C14_ShapeParamsAtLeastOne ==
  \A id \in DOMAIN CurrentData.models :
    /\ QLe(QI(1), CurrentData.models[id].alphaParam)
    /\ QLe(QI(1), CurrentData.models[id].betaParam)
    /\ \A h \in DOMAIN CurrentData.models[id].hourlyModels :
         /\ QLe(QI(1), CurrentData.models[id].hourlyModels[h].alpha)
         /\ QLe(QI(1), CurrentData.models[id].hourlyModels[h].beta)

\* a soft reset has just left an item with a betaParam strictly between 1
\* and 2, next to its hourly sub-model
C14_Witness ==
  /\ log = "soft-reset"
  /\ \E id \in DOMAIN CurrentData.models :
       /\ CurrentData.models[id].windowScores = <<>>
       /\ QLt(QI(1), CurrentData.models[id].betaParam)
       /\ QLt(CurrentData.models[id].betaParam, QI(2))
       /\ DOMAIN CurrentData.models[id].hourlyModels # {}

\* C15: every stored medDuration, the duration of the session in progress and
\* every duration selectProtocol can return lie in [45, 180] seconds
C15_DurationsWithinBounds ==
  /\ \A id \in DOMAIN CurrentData.models :
       CurrentData.models[id].medDuration # None =>
         /\ CurrentData.models[id].medDuration[1] >= 45
         /\ CurrentData.models[id].medDuration[1] <= 180
  /\ session # NoSession => (session[1].duration >= 45 /\ session[1].duration <= 180)
  /\ \A goal \in Goals :
       \A o \in selectProtocol(CurrentData, goal, now) :
         o.duration >= 45 /\ o.duration <= 180

\* a session of 180 s has just been rated 'worse' and the dose stayed at 180
C15_Witness ==
  /\ session = NoSession
  /\ CurrentData.history # <<>>
  /\ LET last == CurrentData.history[Len(CurrentData.history)]
     IN  /\ last.delta = -1
         /\ last.seconds = 180
         /\ last.dateISO = now
         /\ CurrentData.models[last.protocolId].medDuration = Some(180)

\* the outcomes of id in the history, oldest first
OutcomesOf(data, id) ==
  LET IsOf(r) == r.protocolId = id
      recs == SelectSeq(data.history, IsOf)
  IN  [i \in 1..Len(recs) |-> recs[i].delta]

\* the adaptive step after the outcomes (the one being saved included): 20 if
\* one of the last three was 'worse', else 10 if the last two were both
\* 'better', else 15
AdaptiveStep(outcomes) ==
  LET n == Len(outcomes)
  IN  IF \E i \in 1..n : i > n - 3 /\ outcomes[i] = -1 THEN 20
      ELSE IF n >= 2 /\ outcomes[n] = 1 /\ outcomes[n - 1] = 1 THEN 10
      ELSE 15

\* the dose one step of s away from d in the direction of the rating
DoseAfter(d, delta, s) ==
  IF delta = 1 THEN (IF d - s < 45 THEN 45 ELSE d - s)
  ELSE IF delta = -1 THEN (IF d + s > 180 THEN 180 ELSE d + s)
  ELSE d

\* the stored dose of id, if any
StoredDose(data, id) ==
  IF id \in DOMAIN data.models THEN data.models[id].medDuration ELSE None

\* C16: a rating moves the dose of the rated item one adaptive step (10, 15 or
\* 20 s) from the duration of the session, down for 'better' (not below 45),
\* up for 'worse' (not above 180), not at all for neutral, and adjustDuration
\* gives the same dose as updateModel stored
C16_AdaptiveDoseStep ==
  [][\A id \in ProtocolIds :
       RatingStep(id) =>
         /\ StoredDose(CurrentData', id) =
              Some(DoseAfter(session[1].duration, LastDelta(CurrentData'),
                             AdaptiveStep(OutcomesOf(CurrentData', id))))
         /\ StoredDose(CurrentData', id) =
              Some(adjustDuration(id, session[1].duration, LastDelta(CurrentData')))]_vars

\* the session records of id in the history, oldest first
RecordsOf(data, id) ==
  LET IsOf(r) == r.protocolId = id
  IN  SelectSeq(data.history, IsOf)

\* C17: when the last k (1, 2 or 3) sessions of the item just rated were all
\* rated 'better' and ran at 120 s, 110 s and 100 s in turn, its stored dose
\* is 120 - 10 * k: each of the three steps lowers the dose by exactly 10 s
C17_ThreeBetterStepsOfTen ==
  (session = NoSession /\ CurrentData.history # <<>>) =>
    LET id == CurrentData.history[Len(CurrentData.history)].protocolId
        recs == RecordsOf(CurrentData, id)
    IN  \A k \in 1..3 :
          (/\ Len(recs) >= k
           /\ \A j \in 1..k :
                /\ recs[Len(recs) - k + j].delta = 1
                /\ recs[Len(recs) - k + j].seconds = 120 - 10 * (j - 1))
          => StoredDose(CurrentData, id) = Some(120 - 10 * k)

\* C18: a 'better' rating never leaves the stored dose of the item higher
\* than the dose stored for it before the rating, and a 'worse' rating never
\* leaves it lower
C18_DoseMonotonePerRating ==
  [][\A id \in ProtocolIds :
       (RatingStep(id) /\ StoredDose(CurrentData, id) # None) =>
         /\ LastDelta(CurrentData') = 1 =>
              StoredDose(CurrentData', id)[1] <= StoredDose(CurrentData, id)[1]
         /\ LastDelta(CurrentData') = -1 =>
              StoredDose(CurrentData', id)[1] >= StoredDose(CurrentData, id)[1]]_vars

\* the stored score window of id
WindowOf(data, id) ==
  IF id \in DOMAIN data.models THEN data.models[id].windowScores ELSE <<>>

\* the last five entries of a sequence, in order
LastFive(w) == [i \in 1..(IF Len(w) > 5 THEN 5 ELSE Len(w)) |->
                  w[i + (IF Len(w) > 5 THEN Len(w) - 5 ELSE 0)]]

\* the window of id has at most 5 entries and they are the last outcomes of
\* id in the history, in order
WindowIsRecent(data, id) ==
  LET w == WindowOf(data, id)
      outcomes == OutcomesOf(data, id)
  IN  /\ Len(w) <= 5
      /\ Len(w) <= Len(outcomes)
      /\ \A i \in 1..Len(w) : w[i] = outcomes[Len(outcomes) - Len(w) + i]

EmaOf(data, id) == data.models[id].emaAvg

\* C20: the first rating of an item sets emaAvg to the delta; every later
\* rating without a reset in the call sets emaAvg to 0.8 * (previous emaAvg)
\* + 0.2 * delta, whatever the previous emaAvg is, 0 included
C20_EmaSmoothing ==
  [][\A id \in ProtocolIds :
       (RatingStep(id) /\ ~SoftResetStep(id)) =>
         IF id \notin DOMAIN CurrentData.models \/ CurrentData.models[id].trials = 0
         THEN EmaOf(CurrentData', id) = QI(LastDelta(CurrentData'))
         ELSE EmaOf(CurrentData', id) =
                QAdd(QMul(Q(8, 10), EmaOf(CurrentData, id)),
                     QMul(Q(2, 10), QI(LastDelta(CurrentData'))))]_vars

\* the sum of weight * confidence over the votes cast for id
WeightedSupport(votes, weights, id) ==
  SumQ([i \in 1..Len(votes) |->
          IF votes[i].protocolId = id
          THEN QMul(weights[votes[i].algorithm], votes[i].confidence)
          ELSE QI(0)])

\* C21: the consensusScore of ensembleVoting is the number of the four votes
\* cast for the selected protocol divided by four, one of 0, 0.25, 0.5, 0.75
\* and 1, and no protocol has a higher sum of weight * confidence over its
\* votes than the selected one
C21_ConsensusIsVoteFraction ==
  ret # None =>
    LET votes == call[1].votes
        selected == ret[1].selectedProtocolId
        agree == Cardinality({i \in 1..4 : votes[i].protocolId = selected})
    IN  /\ ret[1].consensusScore.n * 4 = agree * ret[1].consensusScore.d
        /\ ret[1].consensusScore \in {QI(0), Q(1, 4), Q(1, 2), Q(3, 4), QI(1)}
        /\ \A i \in 1..4 :
             QLe(WeightedSupport(votes, call[1].weights, votes[i].protocolId),
                 WeightedSupport(votes, call[1].weights, selected))

\* one confident vote has beaten three votes of no confidence for two other
\* protocols: consensus 0.25
C21_Witness ==
  /\ ret # None
  /\ ret[1].consensusScore = Q(1, 4)
  /\ Cardinality({call[1].votes[i].protocolId : i \in 1..4}) = 3
  /\ call[1].votes[4].protocolId = ret[1].selectedProtocolId
  /\ call[1].votes[1].protocolId = call[1].votes[2].protocolId

\* C22: the analytics queries are read-only: after getProtocolInsights,
\* getAlgorithmMetrics or getTopRecommendations the models and the history of
\* the AppData argument are what they were, and neither the stored blob nor
\* defaultData has changed
C22_AnalyticsReadOnly ==
  [][(call' # None /\ call' # call) =>
       /\ ret'[1].data.models = call'[1].data.models
       /\ ret'[1].data.history = call'[1].data.history
       /\ stored' = stored
       /\ defaultData' = defaultData]_vars

\* getAlgorithmMetrics has answered on a history of more than 20 sessions
\* with a model that was reset
C22_Witness ==
  /\ call # None
  /\ call[1].query = "getAlgorithmMetrics"
  /\ ret[1].result.totalSessions > 20
  /\ ret[1].result.driftDetections >= 1
  /\ Len(ret[1].data.history) = ret[1].result.totalSessions

\* C23: whenever the blob is absent or unparseable, loadData yields the empty
\* default state: no models, an empty history, streak 0
C23_AbsentBlobLoadsEmpty ==
  (stored = None \/ stored = Unparseable) =>
    loadData(stored, defaultData).data = [models |-> <<>>, history |-> <<>>, streak |-> 0]


\* C24: after any sequence of registrations and updateSimilarityMatrix calls
\* the similarity matrix is symmetric: whenever M[i][j] is defined, M[j][i]
\* is defined and equal to it
C24_SimilarityMatrixSymmetric ==
  LET M == ret[1].similarityMatrix
  IN  \A i \in DOMAIN M : \A j \in DOMAIN M[i] :
        /\ j \in DOMAIN M
        /\ i \in DOMAIN M[j]
        /\ M[j][i] = M[i][j]

\* two rows written by different calls, after a feature changed in between
C24_Witness ==
  LET M == ret[1].similarityMatrix
  IN  /\ call # None
      /\ call[1].fn = "updateSimilarityMatrix"
      /\ \E i \in DOMAIN M : \E j \in DOMAIN M[i] :
           /\ i # j
           /\ j \in DOMAIN M
           /\ M[i][j] # calculateProtocolSimilarity(ret[1].protocolFeatures[i],
                                                     ret[1].protocolFeatures[j])
      /\ \E i \in DOMAIN M : \E j \in DOMAIN M[i] : i # j /\ M[i][j] # QI(1)
      /\ Cardinality(DOMAIN M) = 3


\* the evidence (alpha + beta) a level holds beyond the weak prior it starts with
GlobalAdded(h) == QSub(QAdd(h.globalPrior.alpha, h.globalPrior.beta), Q(5, 2))

GoalAdded(h, g) == QSub(QAdd(h.goalPriors[g].alpha, h.goalPriors[g].beta), Q(5, 2))

RECURSIVE SumGoalAdded(_, _)
SumGoalAdded(h, gs) ==
  IF gs = {} THEN QI(0)
  ELSE LET g == CHOOSE x \in gs : TRUE
       IN  QAdd(GoalAdded(h, g), SumGoalAdded(h, gs \ {g}))

Scaled(post, w) == [alpha |-> QMul(post.alpha, w), beta |-> QMul(post.beta, w)]

Gain(before, after) ==
  [alpha |-> QSub(after.alpha, before.alpha), beta |-> QSub(after.beta, before.beta)]

\* what one updateHierarchicalModel(protocolId, goal, reward) does to each level
HierUpdateEffect(h, h2, c) ==
  LET key == <<c.protocolId, c.goal>>
      obs == [alpha |-> c.reward, beta |-> QSub(QI(1), c.reward)]
      start == IF key \in DOMAIN h.protocolGoalModels THEN h.protocolGoalModels[key]
               ELSE IF h.goalPriors[c.goal].protocolCount > 0
                    THEN [alpha |-> h.goalPriors[c.goal].alpha,
                          beta |-> h.goalPriors[c.goal].beta, trials |-> 0]
                    ELSE [alpha |-> h.globalPrior.alpha,
                          beta |-> h.globalPrior.beta, trials |-> 0]
  IN  /\ Gain(start, h2.protocolGoalModels[key]) = obs
      /\ h2.protocolGoalModels[key].trials = start.trials + 1
      /\ Gain(h.goalPriors[c.goal], h2.goalPriors[c.goal]) = Scaled(obs, Q(5, 100))
      /\ Gain(h.globalPrior, h2.globalPrior) = Scaled(obs, Q(2, 100))
      /\ \A g \in Goals \ {c.goal} : h2.goalPriors[g] = h.goalPriors[g]
      /\ \A k \in DOMAIN h.protocolGoalModels \ {key} :
           /\ k \in DOMAIN h2.protocolGoalModels
           /\ h2.protocolGoalModels[k] = h.protocolGoalModels[k]
      /\ DOMAIN h2.protocolGoalModels = DOMAIN h.protocolGoalModels \cup {key}

\* C25 as stated: after any sequence of updates the evidence added at the
\* global level is less than at any goal level, which is less than at the
\* protocol level (each protocol-goal model of that goal)
C25_GlobalBelowEveryGoal ==
  LET h == ret[1]
  IN  call # None =>
        /\ \A g \in Goals : QLt(GlobalAdded(h), GoalAdded(h, g))
        /\ \A k \in DOMAIN h.protocolGoalModels :
             QLt(GoalAdded(h, k[2]), QI(h.protocolGoalModels[k].trials))

\* C25: each updateHierarchicalModel(protocolId, goal, r) adds (r, 1-r) to the
\* protocol-goal posterior and one trial, exactly 0.05*(r, 1-r) to that goal's
\* prior and exactly 0.02*(r, 1-r) to the global prior, and leaves the other
\* goals' priors and the other protocol-goal posteriors unchanged; so after
\* any sequence of updates the evidence added at the global level is less than
\* the evidence added over all goal levels together, which is less than the
\* number of observations taken at the protocol level
C25_SlowerPoolingPerLevel ==
  /\ [](call # None =>
          /\ QLt(GlobalAdded(ret[1]), SumGoalAdded(ret[1], Goals))
          /\ QLt(SumGoalAdded(ret[1], Goals), QI(updatesOf(ret[1]))))
  /\ [][HierUpdateEffect(ret[1], ret'[1], call'[1])]_vars

\* updates of two goals and of two protocols of one goal
C25_Witness ==
  LET h == ret[1]
  IN  /\ call # None
      /\ updatesOf(h) = 3
      /\ h.goalPriors["focus"].protocolCount = 2
      /\ h.goalPriors["calm"].protocolCount = 1
      /\ Cardinality(DOMAIN h.protocolGoalModels) = 3
      /\ QLt(GoalAdded(h, "calm"), GlobalAdded(h))


\* C26: for each of the three goals and every stored state, selectProtocol
\* returns a result, and every protocol it can return is one of the goal's
\* candidates: its supports list contains the goal, in every phase, the
\* ensemble branch included
C26_SelectsCandidateOfGoal ==
  /\ \A goal \in Goals :
       /\ selectProtocol(CurrentData, goal, now) # {}
       /\ \A o \in selectProtocol(CurrentData, goal, now) :
            /\ o.protocol \in ProtocolIds
            /\ goal \in getProtocolById(o.protocol).supports
  /\ session # NoSession =>
       session[1].goal \in getProtocolById(session[1].protocol).supports

\* the ensemble decided a selection for focus while another goal still has
\* candidates that were never tried
C26_Witness ==
  /\ session # NoSession
  /\ log = "ensemble"
  /\ session[1].goal = "focus"
  /\ "focus" \in getProtocolById(session[1].protocol).supports
  /\ \E o \in selectProtocol(CurrentData, "pre-sleep", now) : o.branch = "untried"


\* the window updateModel tests when delta is rated: the stored window with
\* delta appended, cut to its last five entries
WindowAfter(data, id, delta) == LastFive(WindowOf(data, id) \o <<delta>>)

HasBothSigns(w) ==
  /\ Len(w) >= 3
  /\ \E i \in 1..Len(w) : w[i] = 1
  /\ \E i \in 1..Len(w) : w[i] = -1

OneSided(w) ==
  \/ \A i \in 1..Len(w) : w[i] \in {0, 1}
  \/ \A i \in 1..Len(w) : w[i] \in {-1, 0}

InCooldown(data, id, t) ==
  /\ LastReset(data, id) # None
  /\ t - LastReset(data, id)[1] < 3600000

\* C27: outside the cooldown a rating soft-resets the rated item if and only
\* if its window after the rating has at least 3 entries and holds both a +1
\* and a -1; a window with entries only in {0, +1} or only in {-1, 0} never
\* triggers a reset
C27_ResetIffBothSigns ==
  [][\A id \in ProtocolIds :
       RatingStep(id) =>
         LET w == WindowAfter(CurrentData, id, LastDelta(CurrentData'))
         IN  /\ ~InCooldown(CurrentData, id, now) => (SoftResetStep(id) <=> HasBothSigns(w))
             /\ OneSided(w) => ~SoftResetStep(id)]_vars

\* a rating outside the cooldown has just soft-reset an item whose last
\* ratings held a +1 and a -1, while another item keeps a one-sided window of
\* three or more entries
C27_Witness ==
  /\ log = "soft-reset"
  /\ session = NoSession
  /\ \E id \in DOMAIN CurrentData.models :
       /\ RecordsOf(CurrentData, id) # <<>>
       /\ CurrentData.history[Len(CurrentData.history)].protocolId = id
       /\ CurrentData.models[id].windowScores = <<>>
       /\ CurrentData.models[id].lastResetTimestamp = Some(now)
       /\ HasBothSigns(LastFive(OutcomesOf(CurrentData, id)))
  /\ \E other \in DOMAIN CurrentData.models :
       /\ Len(CurrentData.models[other].windowScores) >= 3
       /\ OneSided(CurrentData.models[other].windowScores)


\* C28: in every persisted state each item's recentVariance is the population
\* variance of its stored windowScores (0 for fewer than 3 entries), also
\* right after a soft reset; hence the drift sweep of selectProtocol fully
\* resets only an item whose current window shows variance >= 0.30
C28_VarianceMatchesWindow ==
  /\ [](\A id \in DOMAIN CurrentData.models :
         CurrentData.models[id].recentVariance =
           calculateRecentVariance(CurrentData.models[id].windowScores))
  /\ [][\A id \in ProtocolIds :
          FullResetStep(id) =>
            ~QLt(calculateRecentVariance(WindowOf(CurrentData, id)), Q(30, 100))]_vars


\* the trials of the hourly sub-models of a stored model, summed
HourlyTrials(model) ==
  LET RECURSIVE sumOver(_)
      sumOver(hours) ==
        IF hours = {} THEN 0
        ELSE LET h == CHOOSE x \in hours : TRUE
             IN  model.hourlyModels[h].trials + sumOver(hours \ {h})
  IN  sumOver(DOMAIN model.hourlyModels)

TrialsOf(data, id) == IF id \in DOMAIN data.models THEN data.models[id].trials ELSE 0

HourlyTrialsOf(data, id) ==
  IF id \in DOMAIN data.models THEN HourlyTrials(data.models[id]) ELSE 0

\* C29: in every state each item's trials is the sum of the trials of its
\* hourly sub-models and each hourly sub-model has alpha + beta = 2 + trials;
\* a rating that soft-resets counts once on both sides like any rating, the
\* reset itself changes neither, and a full reset zeroes both
C29_TrialsMatchHourlyModels ==
  /\ [](\A id \in DOMAIN CurrentData.models :
         /\ CurrentData.models[id].trials = HourlyTrials(CurrentData.models[id])
         /\ \A h \in DOMAIN CurrentData.models[id].hourlyModels :
              LET hm == CurrentData.models[id].hourlyModels[h]
              IN  QAdd(hm.alpha, hm.beta) = QI(2 + hm.trials))
  /\ [][\A id \in ProtocolIds :
          /\ SoftResetStep(id) =>
               /\ TrialsOf(CurrentData', id) = TrialsOf(CurrentData, id) + 1
               /\ HourlyTrialsOf(CurrentData', id) = HourlyTrialsOf(CurrentData, id) + 1
          /\ FullResetStep(id) =>
               /\ TrialsOf(CurrentData', id) = 0
               /\ HourlyTrialsOf(CurrentData', id) = 0]_vars

\* a selection has just fully reset one item, next to an item that keeps
\* its trials in hourly sub-models
C29_Witness ==
  /\ session # NoSession
  /\ log \in {"ensemble", "thompson"}
  /\ \E id \in DOMAIN CurrentData.models :
       /\ CurrentData.models[id].trials = 0
       /\ CurrentData.models[id].lastResetTimestamp = Some(now)
       /\ DOMAIN CurrentData.models[id].hourlyModels = {}
  /\ \E id \in DOMAIN CurrentData.models :
       /\ CurrentData.models[id].trials >= 3
       /\ DOMAIN CurrentData.models[id].hourlyModels # {}
       /\ HourlyTrials(CurrentData.models[id]) = CurrentData.models[id].trials


\* the candidates of goal flagged consistently harmful with fewer than 2 trials
HarmfulBeginners(data, goal) ==
  {p.id : p \in {c \in SeqToSet(getProtocolsByGoal(goal)) :
                   /\ c.id \in DOMAIN data.models
                   /\ data.models[c.id].trials < 2
                   /\ data.models[c.id].emaAvg.n * 10 < -3 * data.models[c.id].emaAvg.d}}

\* C30: once no candidate of the goal is untried, selectProtocol never returns
\* a candidate flagged consistently harmful (emaAvg < -0.3) that has fewer
\* than 2 trials while some other candidate of the goal has trials >= 2
C30_HarmfulBeginnerSkipped ==
  \A goal \in Goals :
    (/\ ZeroTrialIds(CurrentData, goal) = {}
     /\ \E c \in SeqToSet(getProtocolsByGoal(goal)) :
          c.id \in DOMAIN CurrentData.models /\ CurrentData.models[c.id].trials >= 2)
    => \A o \in selectProtocol(CurrentData, goal, now) :
         o.protocol \notin HarmfulBeginners(CurrentData, goal)

====
